---------------------------- MODULE Spec2Model ----------------------------
(***************************************************************************)
(* Format-preserving edit protocol of debmutate: reformatting.py (Editor,  *)
(* edit_formatted_file, check_generated_file, check_preserve_formatting)   *)
(* with the maintscript adapter of debhelper.py plugged in as parse/format.*)
(*                                                                         *)
(* A text is a sequence of lines, each line standing for the line's text   *)
(* followed by "\n".  A content is Python's str, bytes or None.            *)
(***************************************************************************)
EXTENDS Integers, Sequences, FiniteSets, TLC

\* ------------------------------------------------------------------ bounds
\* Longest file (in lines) the initial states and the direct calls draw from.
MaxLen == 2
\* Mutations of the parsed structure in one session.
MaxMut == 2

\* ------------------------------------------------------------------- lines
\* A maintscript entry in canonical form, the same entry followed by a
\* trailing blank (which split()/join() drops), a second entry, an empty
\* line and a comment line that carries the generated-file banner.
EntryA == "rm_conffile /a"
EntryA_ws == "rm_conffile /a "
EntryB == "rm_conffile /b"
Blank == ""
Banner == "# DO NOT EDIT"

Lines == {EntryA, EntryA_ws, EntryB, Blank, Banner}
Entries == {EntryA, EntryB}

\* All texts of at most n lines over the set of lines L.
Texts(L, n) == UNION {[1..k -> L] : k \in 0..n}

\* -------------------------------------------------------------- contents
\* Python values str / bytes / None.  t = "none" is None.
None == [t |-> "none", l |-> <<>>]
Str(l) == [t |-> "str", l |-> l]
Bytes(l) == [t |-> "bytes", l |-> l]
IsNone(c) == c.t = "none"

\* The file at `path`: absent, or its lines.
NoFile == [exists |-> FALSE, l |-> <<>>]
File(l) == [exists |-> TRUE, l |-> l]

\* line.rstrip() of one line of the alphabet.
RStripLine(x) == IF x = EntryA_ws THEN EntryA ELSE x

RECURSIVE DropLeadingBlank(_)
DropLeadingBlank(l) ==
    IF l /= <<>> /\ Head(l) = Blank THEN DropLeadingBlank(Tail(l)) ELSE l

RECURSIVE DropTrailingBlank(_)
DropTrailingBlank(l) ==
    IF l /= <<>> /\ l[Len(l)] = Blank
    THEN DropTrailingBlank(SubSeq(l, 1, Len(l) - 1))
    ELSE l

\* str.strip() / bytes.strip() of a whole text: the white space at both ends
\* goes, that is the leading empty lines, the trailing empty lines and the
\* trailing blanks and newline of the last line left.  The result is given as
\* the lines left, the last one without its newline.
StripLines(l) ==
    LET m == DropTrailingBlank(DropLeadingBlank(l))
    IN  IF m = <<>> THEN m
        ELSE [m EXCEPT ![Len(m)] = RStripLine(m[Len(m)])]

\* x.strip() if x is not None else None
Strip(c) == IF IsNone(c) THEN None ELSE [t |-> c.t, l |-> StripLines(c.l)]

\* ------------------------------------------------------------------ merge3
\* merge3.Merge3(base, a, b) as edit_formatted_file uses it: the matching
\* blocks of difflib.SequenceMatcher(None, base, x), the regions both sides
\* keep in sync, and the classification of what lies between them.

EqRange(a, i, b, j, k) == \A d \in 0..(k - 1) : a[i + d] = b[j + d]

\* find_longest_match over a[alo..ahi-1] and b[blo..bhi-1]: the longest
\* common block, the one starting earliest in a, then earliest in b.
MatchCands(a, alo, ahi, b, blo, bhi) ==
    {c \in (alo..(ahi - 1)) \X (blo..(bhi - 1)) \X (1..(ahi - alo)) :
        /\ c[1] + c[3] <= ahi
        /\ c[2] + c[3] <= bhi
        /\ EqRange(a, c[1], b, c[2], c[3])}

BestOf(C, none) ==
    IF C = {} THEN none
    ELSE CHOOSE c \in C : \A d \in C :
            \/ c[3] > d[3]
            \/ c[3] = d[3] /\ c[1] < d[1]
            \/ c[3] = d[3] /\ c[1] = d[1] /\ c[2] <= d[2]

LongestMatch(a, alo, ahi, b, blo, bhi) ==
    BestOf(MatchCands(a, alo, ahi, b, blo, bhi), <<alo, blo, 0>>)

\* get_matching_blocks, as the set of matched index pairs <<i, j>>: the
\* longest match m, and the matches to its left and to its right.
RECURSIVE MatchPairs(_, _, _, _, _, _)
MatchAround(a, alo, ahi, b, blo, bhi, m) ==
    IF m[3] = 0 THEN {}
    ELSE MatchPairs(a, alo, m[1], b, blo, m[2])
         \cup {<<m[1] + d, m[2] + d>> : d \in 0..(m[3] - 1)}
         \cup MatchPairs(a, m[1] + m[3], ahi, b, m[2] + m[3], bhi)

MatchPairs(a, alo, ahi, b, blo, bhi) ==
    MatchAround(a, alo, ahi, b, blo, bhi,
                LongestMatch(a, alo, ahi, b, blo, bhi))

MatchingBlocks(a, b) == MatchPairs(a, 1, Len(a) + 1, b, 1, Len(b) + 1)

\* find_sync_regions: the lines of base matched in both a and b, as triples
\* <<index in base, index in a, index in b>>.
SyncLines(base, a, b) ==
    {<<pq[1][1], pq[1][2], pq[2][2]>> :
        pq \in {r \in MatchingBlocks(base, a) \X MatchingBlocks(base, b) :
                    r[1][1] = r[2][1]}}

\* merge_regions on the stretch between two sync points: base z, side a x,
\* side b y.
RegionKind(z, x, y) ==
    IF x = <<>> /\ y = <<>> THEN "dropped"
    ELSE IF x = y THEN "same"
    ELSE IF x = z THEN "b"
    ELSE IF y = z THEN "a"
    ELSE "conflict"

\* merge_lines on that stretch: the lines of side b, or those of side a.
RegionLines(z, x, y) ==
    IF x /= y /\ x = z THEN y ELSE x

Region(z, x, y) ==
    [conflict |-> RegionKind(z, x, y) = "conflict",
     lines |-> RegionLines(z, x, y)]

\* A region, the sync line after it, and the rest of the merge.
Joined(here, line, rest) ==
    [conflict |-> here.conflict \/ rest.conflict,
     lines |-> here.lines \o <<line>> \o rest.lines]

\* The first of the sync points `after`, or the end of the three texts.
NextSync(after, base, a, b) ==
    IF after = {}
    THEN <<Len(base) + 1, Len(a) + 1, Len(b) + 1>>
    ELSE CHOOSE s \in after : \A u \in after : s[1] <= u[1]

\* merge_regions / merge_lines from the sync point <<pz, pa, pb>> on:
\* whether a conflict region follows, and the merged lines.
RECURSIVE MergeFrom(_, _, _, _, _, _, _)
MergeTo(S, base, a, b, pz, pa, pb, nxt) ==
    IF nxt[1] > Len(base)
    THEN Region(SubSeq(base, pz + 1, nxt[1] - 1),
                SubSeq(a, pa + 1, nxt[2] - 1),
                SubSeq(b, pb + 1, nxt[3] - 1))
    ELSE Joined(Region(SubSeq(base, pz + 1, nxt[1] - 1),
                       SubSeq(a, pa + 1, nxt[2] - 1),
                       SubSeq(b, pb + 1, nxt[3] - 1)),
                base[nxt[1]],
                MergeFrom(S, base, a, b, nxt[1], nxt[2], nxt[3]))

MergeFrom(S, base, a, b, pz, pa, pb) ==
    MergeTo(S, base, a, b, pz, pa, pb,
            NextSync({s \in S : s[1] > pz}, base, a, b))

Merge3(base, a, b) == MergeFrom(SyncLines(base, a, b), base, a, b, 0, 0, 0)

\* ------------------------------------------------- reformatting.py, checks
DO_NOT_EDIT_SCAN_LINES == 20

\* check_generated_file(path): which GeneratedFile it raises, if any.  The
\* siblings path+".in" and path+".m4" are looked up in this order; then the
\* lines of the file are scanned while enumerate's index i (from 0) is not
\* above DO_NOT_EDIT_SCAN_LINES.  A missing file has no lines.
check_generated_file_m4_first(f, has_in, has_m4) ==
    IF has_m4 THEN [raised |-> TRUE, template |-> ".m4"]
    ELSE IF has_in THEN [raised |-> TRUE, template |-> ".in"]
    ELSE IF f.exists /\ \E n \in 1..Len(f.l) :
                            /\ n - 1 <= DO_NOT_EDIT_SCAN_LINES
                            /\ f.l[n] = Banner
         THEN [raised |-> TRUE, template |-> "none"]
         ELSE [raised |-> FALSE, template |-> "none"]

check_generated_file(f, has_in, has_m4) ==
    IF has_in THEN [raised |-> TRUE, template |-> ".in"]
    ELSE IF has_m4 THEN [raised |-> TRUE, template |-> ".m4"]
    ELSE IF f.exists /\ \E n \in 1..Len(f.l) :
                            /\ n - 1 <= DO_NOT_EDIT_SCAN_LINES
                            /\ f.l[n] = Banner
         THEN [raised |-> TRUE, template |-> "none"]
         ELSE [raised |-> FALSE, template |-> "none"]

\* check_preserve_formatting(rewritten_text, text, path, allow_reformatting):
\* TRUE when it returns, FALSE when it raises FormattingUnpreservable.
check_preserve_formatting_lenient(rewritten_text, text, allow) == TRUE

check_preserve_formatting(rewritten_text, text, allow) ==
    \/ rewritten_text = text
    \/ allow

\* The versions of the merge3 library an installation can have: none, one
\* older than 0.0.7, or 0.0.7 and later.
Merge3Versions == {"missing", "old", "new"}

\* The fallback of edit_formatted_file once check_preserve_formatting has
\* raised: re-raise, or the contents to write instead.
\* splitlines(True) of a content: its lines, each a str or a bytes value.
splitlines(c) == [n \in 1..Len(c.l) |-> <<c.t, c.l[n]>>]

\* lines 148-153: a conflict region re-raises; else the merged lines are
\* joined with a separator of the type of updated, which raises TypeError
\* on a line of the other type.
merged_contents_updated(m, updated) ==
    IF m.conflict
    THEN [raised |-> "FormattingUnpreservable", contents |-> updated]
    ELSE [raised |-> "none", contents |-> updated]

merged_contents(m, updated) ==
    IF m.conflict
    THEN [raised |-> "FormattingUnpreservable", contents |-> updated]
    ELSE IF \E n \in 1..Len(m.lines) : m.lines[n][1] /= updated.t
    THEN [raised |-> "TypeError", contents |-> updated]
    ELSE [raised |-> "none",
          contents |-> [t |-> updated.t,
                        l |-> [n \in 1..Len(m.lines) |-> m.lines[n][2]]]]

merge_fallback(original, rewritten, updated, m3) ==
    IF IsNone(rewritten) \/ IsNone(original) \/ IsNone(updated)
    THEN [raised |-> "FormattingUnpreservable", contents |-> updated]
    ELSE IF m3 = "missing"
    THEN [raised |-> "FormattingUnpreservable", contents |-> updated]
    ELSE IF rewritten.t = "bytes" /\ m3 = "old"
    THEN [raised |-> "FormattingUnpreservable", contents |-> updated]
    ELSE merged_contents(Merge3(splitlines(rewritten), splitlines(original),
                                splitlines(updated)),
                         updated)

\* with open(path, mode) as f: f.write(contents).  Opening for writing
\* creates or truncates the file before write() looks at its argument, and
\* write(None) raises TypeError.
write_file(contents) ==
    IF IsNone(contents)
    THEN [exc |-> "TypeError", ret |-> FALSE, template |-> "none",
          file |-> File(<<>>)]
    ELSE [exc |-> "none", ret |-> TRUE, template |-> "none",
          file |-> File(contents.l)]

\* edit_formatted_file(path, original_contents, rewritten_contents,
\* updated_contents, allow_generated, allow_reformatting) on the file f with
\* the given siblings: the exception it raises ("none": it returns ret), the
\* template_path of a GeneratedFile, and the file it leaves.
Untouched(f, e, r, tpl) ==
    [exc |-> e, ret |-> r, template |-> tpl, file |-> f]

\* lines 129-157: the fallback fb raised, or its contents are written.
write_fallback(f, fb) ==
    IF fb.raised /= "none"
    THEN Untouched(f, fb.raised, FALSE, "none")
    ELSE write_file(fb.contents)

\* lines 121-157
preserve_and_write(f, original, rewritten, updated, allow_ref, m3) ==
    IF check_preserve_formatting(Strip(rewritten), Strip(original), allow_ref)
    THEN write_file(updated)
    ELSE write_fallback(f, merge_fallback(original, rewritten, updated, m3))

\* lines 119-120
generated_raise(f, gen) == Untouched(f, "GeneratedFile", FALSE, gen.template)

\* line 117: updated_contents in (rewritten_contents, original_contents)
no_change_rewritten_only(original, rewritten, updated) == updated = rewritten

no_change(original, rewritten, updated) ==
    updated = rewritten \/ updated = original

\* lines 119-157, with the preservability check moved before the
\* generated-file check.
checked_write_preserve_first(f, has_in, has_m4, original, rewritten, updated, allow_gen, allow_ref, m3) ==
    IF /\ ~check_preserve_formatting(Strip(rewritten), Strip(original),
                                     allow_ref)
       /\ merge_fallback(original, rewritten, updated, m3).raised /= "none"
    THEN Untouched(f, "FormattingUnpreservable", FALSE, "none")
    ELSE IF ~allow_gen /\ check_generated_file(f, has_in, has_m4).raised
    THEN generated_raise(f, check_generated_file(f, has_in, has_m4))
    ELSE preserve_and_write(f, original, rewritten, updated, allow_ref, m3)

\* lines 119-157: the generated-file check, then the preservability check
\* and the write.
checked_write(f, has_in, has_m4, original, rewritten, updated, allow_gen, allow_ref, m3) ==
    IF ~allow_gen /\ check_generated_file(f, has_in, has_m4).raised
    THEN generated_raise(f, check_generated_file(f, has_in, has_m4))
    ELSE preserve_and_write(f, original, rewritten, updated, allow_ref, m3)

edit_formatted_file(f, has_in, has_m4, original, rewritten, updated, allow_gen, allow_ref, m3) ==
    IF ~IsNone(updated) /\ ~IsNone(rewritten) /\ updated.t /= rewritten.t
    THEN Untouched(f, "TypeError", FALSE, "none")
    ELSE IF no_change(original, rewritten, updated)
    THEN Untouched(f, "none", FALSE, "none")
    ELSE checked_write(f, has_in, has_m4, original, rewritten, updated,
                       allow_gen, allow_ref, m3)

\* ------------------------------------------------ the maintscript adapter
\* The parsed structure: None, or the list of entries.  An entry is kept as
\* the line its arguments serialize to.
ParsedNone == [none |-> TRUE, l |-> <<>>]
Parsed(l) == [none |-> FALSE, l |-> l]

\* serialize_maintscript_line(parse_maintscript_line(line).args()):
\* " ".join(line.split()).
SplitJoin(x) == IF x = EntryA_ws THEN EntryA ELSE x

\* MaintscriptEditor._parse: comments and empty lines are kept as they are,
\* the other lines are parsed.
ParseLine(x) == IF x = Banner \/ x = Blank THEN x ELSE SplitJoin(x)
Parse(content) == Parsed([n \in 1..Len(content.l) |-> ParseLine(content.l[n])])

\* MaintscriptEditor._format: None for None and for no lines at all.
Format(p) ==
    IF p.none THEN None
    ELSE IF p.l = <<>> THEN None
    ELSE Str(p.l)

\* ---------------------------------------------------------------- state
VARIABLES
    file,               \* the file at `path`
    sib_in, sib_m4,     \* whether path+".in" / path+".m4" exist
    merge3_version,     \* the merge3 library installed
    allow_generated,    \* Editor.allow_generated / the argument of a call
    allow_reformatting, \* Editor.allow_reformatting / the argument of a call
    nonexistant,        \* the adapter's hook for a missing file, see Hooks
    pc,                 \* "new", "open", "closed", "enter_failed", "called"
    orig_content,       \* Editor._orig_content / original_contents
    parsed,             \* Editor._parsed
    rewritten_content,  \* Editor._rewritten_content / rewritten_contents
    updated_content,    \* updated_content of __exit__ / updated_contents
    changed,            \* Editor.changed: "unset", "True", "False"
    exc,                \* the exception leaving the last operation
    template_path,      \* GeneratedFile.template_path of that exception
    body_raised,        \* __exit__ was entered with exc_type set
    probe,              \* what the last has_changed() returned, if still fresh
    nmut,               \* mutations of parsed so far
    mutated,            \* parsed was mutated since entry
    file0,              \* the file as it was before the session / the call
    other,              \* a second Editor session, on another path
    rel                 \* a call of the relation algebra of control.py

vars == <<file, sib_in, sib_m4, merge3_version, allow_generated,
          allow_reformatting, nonexistant, pc, orig_content, parsed,
          rewritten_content, updated_content, changed, exc, template_path,
          body_raised, probe, nmut, mutated, file0, other, rel>>

env == <<sib_in, sib_m4, merge3_version, allow_generated,
         allow_reformatting, nonexistant, file0, other, rel>>

BoolStr(b) == IF b THEN "True" ELSE "False"

\* The adapters, by what they do about a missing file: "raise" overrides
\* nothing (Editor._nonexistant re-raises), "none" overrides _nonexistant to
\* return None (QuiltSeriesEditor), and "default" defines a method
\* _nonexistent that returns an empty parsed value (Deb822Editor with
\* allow_missing, MaintscriptEditor, ...).
Hooks == {"raise", "none", "default"}

\* self._nonexistant() as __enter__ calls it: a method of that very name is
\* what runs, so an adapter's _nonexistent is never called and the bare raise
\* of Editor._nonexistant re-raises the FileNotFoundError.
CalledHook(h) == IF h = "none" THEN "none" ELSE "raise"

\* The second session: the path it is on (path+".in", path+".m4" or a path
\* elsewhere), its adapter's hook, its file, the fields of its Editor, and
\* whether the siblings of the first session's path existed at the start.
Session2(pth, h, f, in0, m40) ==
    [path |-> pth, hook |-> h, pc |-> "new", file |-> f, file0 |-> f,
     orig_content |-> None, parsed |-> ParsedNone, rewritten_content |-> None,
     updated_content |-> None, changed |-> "unset", exc |-> "none",
     nmut |-> 0, overlap |-> FALSE, sib_in0 |-> in0, sib_m40 |-> m40]

\* No call of the relation algebra: the function called, its arguments, and
\* whether it has returned; its result goes into a field `out`.
NoCall == [fn |-> "none", done |-> FALSE]

\* No second session.
NoSession == Session2("none", "raise", NoFile, FALSE, FALSE)

\* Editor.__init__ with a file system around it.
InitEditor ==
    /\ file \in {NoFile} \cup {File(l) : l \in Texts(Lines, MaxLen)}
    /\ file0 = file
    /\ sib_in \in BOOLEAN
    /\ sib_m4 \in BOOLEAN
    /\ allow_generated \in BOOLEAN
    /\ allow_reformatting \in BOOLEAN
    /\ nonexistant \in Hooks
    /\ pc = "new"
    /\ orig_content = None
    /\ parsed = ParsedNone
    /\ rewritten_content = None
    /\ updated_content = None
    /\ changed = "unset"
    /\ exc = "none"
    /\ template_path = "none"
    /\ body_raised = FALSE
    /\ probe = "unset"
    /\ nmut = 0
    /\ mutated = FALSE
    /\ rel = NoCall
    /\ other = NoSession

\* The sessions edit text files (mode ''), for which only the presence of
\* merge3 matters.
Init ==
    /\ InitEditor
    /\ merge3_version \in {"missing", "new"}

\* Editor.__enter__
Enter ==
    /\ pc = "new"
    /\ IF file.exists
       THEN /\ orig_content' = Str(file.l)
            /\ parsed' = Parse(Str(file.l))
            /\ pc' = "open"
            /\ exc' = "none"
       ELSE /\ orig_content' = None
            /\ parsed' = ParsedNone
            /\ IF CalledHook(nonexistant) = "raise"
               THEN pc' = "enter_failed" /\ exc' = "FileNotFoundError"
               ELSE pc' = "open" /\ exc' = "none"
    /\ rewritten_content' = IF pc' = "open" /\ ~parsed'.none
                            THEN Format(parsed') ELSE None
    /\ UNCHANGED <<file, env, updated_content, changed, template_path,
                   body_raised, probe, nmut, mutated>>

\* Editor._updated_content
UpdatedContent(p) == IF ~p.none THEN Format(p) ELSE None

\* Editor.has_changed
has_changed_original_only(p, rewritten, original) ==
    UpdatedContent(p) /= original

has_changed(p, rewritten, original) ==
    LET u == UpdatedContent(p) IN ~(u = rewritten \/ u = original)

HasChanged ==
    /\ pc = "open"
    /\ probe' = BoolStr(has_changed(parsed, rewritten_content, orig_content))
    /\ UNCHANGED <<file, env, pc, orig_content, parsed, rewritten_content,
                   updated_content, changed, exc, template_path, body_raised,
                   nmut, mutated>>

Mutate(p) ==
    /\ pc = "open"
    /\ nmut < MaxMut
    /\ parsed' = p
    /\ nmut' = nmut + 1
    /\ mutated' = TRUE
    /\ probe' = "unset"
    /\ UNCHANGED <<file, env, pc, orig_content, rewritten_content,
                   updated_content, changed, exc, template_path, body_raised>>

\* MaintscriptEditor.append(entry), in the body of the with block
AppendEntry ==
    \E e \in Entries :
        Mutate(IF parsed.none THEN Parsed(<<e>>)
               ELSE Parsed(Append(parsed.l, e)))

\* MaintscriptEditor.__delitem__: the entry at position n goes
DelEntry ==
    \E n \in 1..Len(parsed.l) :
        /\ parsed.l[n] \in Entries
        /\ Mutate(Parsed(SubSeq(parsed.l, 1, n - 1)
                         \o SubSeq(parsed.l, n + 1, Len(parsed.l))))

\* Editor.__exit__(exc_type, exc_val, exc_tb), entered with exc_type set
\* (raised) when the body of the with block raised.  It returns False, so
\* the body's exception goes on unless __exit__ raises one of its own.
BodyExc(raised) == IF raised THEN "BodyError" ELSE "none"

\* lines 220-223: self.changed is assigned when edit_formatted_file returns.
exit_edited(r, raised) ==
    [exc |-> IF r.exc = "none" THEN BodyExc(raised) ELSE r.exc,
     assigned |-> (r.exc = "none"), ret |-> r.ret,
     template |-> r.template, file |-> r.file]

exit_editor_keeps_file(u, f, has_in, has_m4, original, rewritten, allow_gen, allow_ref, m3, raised) ==
    IF IsNone(u)
    THEN [exc |-> BodyExc(raised), assigned |-> FALSE, ret |-> FALSE,
          template |-> "none", file |-> f]
    ELSE exit_edited(edit_formatted_file(f, has_in, has_m4, original,
                                         rewritten, u, allow_gen, allow_ref,
                                         m3),
                     raised)

\* lines 213-223
exit_editor(u, f, has_in, has_m4, original, rewritten, allow_gen, allow_ref, m3, raised) ==
    IF IsNone(u)
    THEN [exc |-> BodyExc(raised), assigned |-> FALSE, ret |-> FALSE,
          template |-> "none", file |-> NoFile]
    ELSE exit_edited(edit_formatted_file(f, has_in, has_m4, original,
                                         rewritten, u, allow_gen, allow_ref,
                                         m3),
                     raised)

Exited(x, raised) ==
    /\ body_raised' = raised
    /\ updated_content' = UpdatedContent(parsed)
    /\ file' = x.file
    /\ exc' = x.exc
    /\ template_path' = x.template
    /\ changed' = IF x.assigned THEN BoolStr(x.ret) ELSE changed
    /\ pc' = "closed"
    /\ UNCHANGED <<env, orig_content, parsed, rewritten_content, probe, nmut,
                   mutated>>

Exit ==
    /\ pc = "open"
    /\ \E raised \in BOOLEAN :
        Exited(exit_editor(UpdatedContent(parsed), file, sib_in, sib_m4,
                           orig_content, rewritten_content, allow_generated,
                           allow_reformatting, merge3_version, raised),
               raised)

Next == Enter \/ HasChanged \/ AppendEntry \/ DelEntry \/ Exit

Spec == Init /\ [][Next]_vars

\* ------------------------------------- direct calls of edit_formatted_file
\* The contents a caller passes: None, or a str or bytes text.
CallLines == {EntryA, EntryB}
CallContents ==
    {None} \cup {[t |-> ty, l |-> l] :
                    ty \in {"str", "bytes"}, l \in Texts(CallLines, MaxLen)}

InitCall ==
    /\ file \in {NoFile, File(<<EntryA>>), File(<<Banner, EntryA>>)}
    /\ file0 = file
    /\ sib_in \in BOOLEAN
    /\ sib_m4 = FALSE
    /\ merge3_version \in Merge3Versions
    /\ allow_generated \in BOOLEAN
    /\ allow_reformatting \in BOOLEAN
    /\ nonexistant = "raise"
    /\ pc = "new"
    /\ orig_content = None
    /\ parsed = ParsedNone
    /\ rewritten_content = None
    /\ updated_content = None
    /\ changed = "unset"
    /\ exc = "none"
    /\ template_path = "none"
    /\ body_raised = FALSE
    /\ probe = "unset"
    /\ nmut = 0
    /\ mutated = FALSE
    /\ rel = NoCall
    /\ other = NoSession

\* The call returned or raised: r is what edit_formatted_file did.
Called(r) ==
    /\ file' = r.file
    /\ exc' = r.exc
    /\ template_path' = r.template
    /\ changed' = IF r.exc = "none" THEN BoolStr(r.ret) ELSE "unset"
    /\ pc' = "called"

EditCall ==
    /\ pc = "new"
    /\ \E original \in CallContents, rewritten \in CallContents,
          updated \in CallContents :
        /\ orig_content' = original
        /\ rewritten_content' = rewritten
        /\ updated_content' = updated
        /\ Called(edit_formatted_file(file, sib_in, sib_m4, original,
                                      rewritten, updated, allow_generated,
                                      allow_reformatting, merge3_version))
    /\ UNCHANGED <<env, parsed, body_raised, probe, nmut, mutated>>

SpecCall == InitCall /\ [][EditCall]_vars

\* ============================================================ properties
\* The vocabulary of the properties below, over the state a finished
\* session (pc = "closed") or a finished call (pc = "called") leaves.
HasBanner(f) == f.exists /\ \E n \in 1..Len(f.l) : f.l[n] = Banner
WasGenerated == sib_in \/ sib_m4 \/ HasBanner(file0)
ExpectedTemplate ==
    IF sib_in THEN ".in" ELSE IF sib_m4 THEN ".m4" ELSE "none"
Unchanged ==
    updated_content = rewritten_content \/ updated_content = orig_content
WriteNeeded == ~IsNone(updated_content) /\ ~Unchanged
TypesConsistent ==
    \/ IsNone(updated_content)
    \/ IsNone(rewritten_content)
    \/ updated_content.t = rewritten_content.t
AllPresent ==
    /\ ~IsNone(orig_content)
    /\ ~IsNone(rewritten_content)
    /\ ~IsNone(updated_content)
StripEqual == Strip(rewritten_content) = Strip(orig_content)
Merge3Usable ==
    /\ merge3_version /= "missing"
    /\ ~(rewritten_content.t = "bytes" /\ merge3_version = "old")
TheMerge ==
    Merge3(splitlines(rewritten_content), splitlines(orig_content),
           splitlines(updated_content))
MergedFile(m) == File([n \in 1..Len(m.lines) |-> m.lines[n][2]])
\* __exit__ raised nothing of its own
ExitQuiet == exc \in {"none", "BodyError"}

\* C1: a session in which the parsed structure is not mutated leaves the file
\* as it was before entry (and still there if it was there) and reports
\* changed = False.
C1_NoOpSessionNeverWrites ==
    (pc = "closed" /\ ~mutated) => (file = file0 /\ changed = "False")

\* C2 as claimed: the call returns False exactly when updated equals
\* rewritten or original, and then the file is untouched; in every other case
\* it raises or returns True with the file written, with updated itself when
\* no merge is involved.
C2_Claimed ==
    pc = "called" =>
        /\ (exc = "none" /\ changed = "False") <=> Unchanged
        /\ Unchanged => file = file0
        /\ ~Unchanged =>
            \/ exc /= "none"
            \/ /\ changed = "True"
               /\ file.exists
               /\ (allow_reformatting \/ StripEqual)
                    => file = File(updated_content.l)

\* C2 as amended: updated and rewritten both present and of different types
\* raise TypeError with the file untouched, whatever else holds; for the
\* other calls the claim holds as it stands.
C2_ReturnsFalseIffUnchanged ==
    pc = "called" =>
        IF ~TypesConsistent
        THEN exc = "TypeError" /\ file = file0
        ELSE /\ (exc = "none" /\ changed = "False") <=> Unchanged
             /\ Unchanged => file = file0
             /\ ~Unchanged =>
                 \/ exc /= "none"
                 \/ /\ changed = "True"
                    /\ file.exists
                    /\ (allow_reformatting \/ StripEqual)
                         => file = File(updated_content.l)

C2_Witness ==
    /\ pc = "called"
    /\ file0.exists
    /\ changed = "True"
    /\ file /= file0
    /\ file = File(updated_content.l)

\* C3 as claimed: when a session has to write and allow_generated is false,
\* it ends in GeneratedFile exactly when the target is generated (a sibling
\* .in or .m4, or the banner in the head of the file), with path+".in" as the
\* template if that exists, else path+".m4" if that exists, else none; a
\* target with neither sibling nor banner is not generated, and neither is a
\* missing target.
C3_Claimed ==
    (pc = "closed" /\ WriteNeeded /\ ~allow_generated) =>
        IF WasGenerated /\ file0.exists
        THEN /\ exc = "GeneratedFile"
             /\ template_path = ExpectedTemplate
             /\ file = file0
        ELSE exc /= "GeneratedFile"

\* C3 as amended: the siblings are looked for before the target is opened,
\* so a missing target is not generated only when it has no sibling either;
\* with a sibling .in or .m4 it is generated via that template.
C3_GeneratedFileDetection ==
    (pc = "closed" /\ WriteNeeded /\ ~allow_generated) =>
        IF WasGenerated
        THEN /\ exc = "GeneratedFile"
             /\ template_path = ExpectedTemplate
             /\ file = file0
        ELSE exc /= "GeneratedFile"

C3_Witness ==
    /\ pc = "closed"
    /\ exc = "GeneratedFile"
    /\ template_path = ".m4"
    /\ ~file0.exists

\* C4: the no-change test comes first, then the generated-file check, then
\* the preservability check: (a) a session that has nothing to write raises
\* neither GeneratedFile nor FormattingUnpreservable, and (b) a changed
\* target that is generated (allow_generated false) and not preservable
\* (allow_reformatting false) ends in GeneratedFile.
C4_CheckOrder ==
    pc = "closed" =>
        /\ ~WriteNeeded => ExitQuiet
        /\ (WriteNeeded /\ WasGenerated /\ ~allow_generated
                /\ ~StripEqual /\ ~allow_reformatting)
            => exc = "GeneratedFile"

C4_Witness ==
    /\ pc = "closed"
    /\ WriteNeeded
    /\ WasGenerated
    /\ ~allow_generated
    /\ ~StripEqual
    /\ ~allow_reformatting
    /\ exc = "GeneratedFile"

\* The call got as far as the preservability check, and that check failed.
PreserveCheckFails ==
    /\ TypesConsistent
    /\ ~Unchanged
    /\ allow_generated \/ ~WasGenerated
    /\ ~allow_reformatting
    /\ ~StripEqual

\* C5 as claimed: when the preservability check fails and original,
\* rewritten and updated are all present, a merge (base rewritten, sides
\* original and updated) without conflict region is written and the call
\* returns True; a merge with a conflict region raises
\* FormattingUnpreservable.
C5_Claimed ==
    (pc = "called" /\ PreserveCheckFails /\ AllPresent) =>
        IF TheMerge.conflict
        THEN exc = "FormattingUnpreservable" /\ file = file0
        ELSE exc = "none" /\ changed = "True" /\ file = MergedFile(TheMerge)

\* C5 as amended: the same, provided the merge3 library can be imported and
\* is not older than 0.0.7 when the contents are bytes.
C5_MergeFallback ==
    (pc = "called" /\ PreserveCheckFails /\ AllPresent /\ Merge3Usable) =>
        IF TheMerge.conflict
        THEN exc = "FormattingUnpreservable" /\ file = file0
        ELSE exc = "none" /\ changed = "True" /\ file = MergedFile(TheMerge)

C5_Witness ==
    /\ pc = "called"
    /\ PreserveCheckFails
    /\ AllPresent
    /\ Merge3Usable
    /\ ~TheMerge.conflict
    /\ file = MergedFile(TheMerge)
    /\ file /= File(updated_content.l)
    /\ changed = "True"

\* The session had to write, was not stopped by the generated-file check,
\* and reformatting is not allowed.
MustPreserve ==
    /\ pc = "closed"
    /\ WriteNeeded
    /\ allow_generated \/ ~WasGenerated
    /\ ~allow_reformatting

\* What C6 allows: FormattingUnpreservable with nothing written, or the
\* conflict-free merge written.
MergedOrRaised ==
    \/ exc = "FormattingUnpreservable" /\ file = file0
    \/ ExitQuiet /\ ~TheMerge.conflict /\ file = MergedFile(TheMerge)

C7_NoPartialWrites ==
    pc = "called" =>
        /\ exc /= "none" => file = file0
        /\ (exc = "none" /\ file /= file0) =>
            /\ changed = "True"
            /\ ~IsNone(updated_content)
            /\ (allow_reformatting \/ StripEqual)
                 => file = File(updated_content.l)

\* C8: when the body of the with block raised, __exit__ neither writes nor
\* deletes the file.
C8_SkippedOnExceptionalExit ==
    (pc = "closed" /\ body_raised) => file = file0

\* C9: has_changed() returns True exactly when format(parsed), as it is at
\* that moment, differs from both rewritten_content and original_content, and
\* the call leaves the file, original_content, rewritten_content and parsed
\* alone.
C9_HasChanged ==
    /\ [](probe /= "unset" =>
            probe = BoolStr(/\ Format(parsed) /= rewritten_content
                            /\ Format(parsed) /= orig_content))
    /\ [][(probe' /= probe /\ probe' /= "unset") =>
            /\ file' = file
            /\ orig_content' = orig_content
            /\ rewritten_content' = rewritten_content
            /\ parsed' = parsed]_vars

C9_Witness ==
    /\ pc = "open"
    /\ probe = "False"
    /\ rewritten_content /= orig_content

\* C10: when the updated content at exit is None the file is deleted, not
\* written: no file is left at path, whether one was there or not.
C10_NoneDeletes ==
    (pc = "closed" /\ IsNone(updated_content)) => file = NoFile

C10_Witness ==
    /\ pc = "closed"
    /\ IsNone(updated_content)
    /\ file0.exists
    /\ file = NoFile

\* ------------------------------------------------------ entry, missing file
\* The adapter opted into create-if-missing: its hook returns a default.
OptedIn == nonexistant \in {"none", "default"}

\* C11: entering on a path that does not exist: with an adapter that opted
\* into create-if-missing entry succeeds with original_content None, and a
\* mutation made then is written to a newly created file on exit; with any
\* other adapter FileNotFoundError leaves entry and no file is created.
C11_CreateIfMissing ==
    (pc /= "new" /\ ~file0.exists) =>
        IF OptedIn
        THEN /\ pc /= "enter_failed"
             /\ IsNone(orig_content)
             /\ (pc = "closed" /\ mutated /\ WriteNeeded /\ ExitQuiet)
                    => file = File(updated_content.l)
        ELSE pc = "enter_failed" /\ exc = "FileNotFoundError" /\ ~file.exists

\* ------------------------------------- direct calls of check_generated_file
\* Longest file (in lines) check_generated_file is called on.
MaxScanLen == 23

\* A file of n lines that holds the banner on the lines of B and nothing on
\* the others.
BannerFile(n, B) == File([k \in 1..n |-> IF k \in B THEN Banner ELSE Blank])

\* The files scanned: at most two banner lines anywhere in the file.
ScanFiles ==
    {BannerFile(t[1], {t[2], t[3]}) :
        t \in {u \in (1..MaxScanLen) \X (1..MaxScanLen) \X (1..MaxScanLen) :
                    u[2] <= u[1] /\ u[3] <= u[1]}}
        \cup {BannerFile(n, {}) : n \in 0..MaxScanLen}

InitScan ==
    /\ file \in {NoFile} \cup ScanFiles
    /\ file0 = file
    /\ sib_in \in BOOLEAN
    /\ sib_m4 \in BOOLEAN
    /\ merge3_version = "new"
    /\ allow_generated = FALSE
    /\ allow_reformatting = FALSE
    /\ nonexistant = "raise"
    /\ pc = "new"
    /\ orig_content = None
    /\ parsed = ParsedNone
    /\ rewritten_content = None
    /\ updated_content = None
    /\ changed = "unset"
    /\ exc = "none"
    /\ template_path = "none"
    /\ body_raised = FALSE
    /\ probe = "unset"
    /\ nmut = 0
    /\ mutated = FALSE
    /\ rel = NoCall
    /\ other = NoSession

\* check_generated_file returned or raised GeneratedFile: g is what it did.
Scanned(g) ==
    /\ exc' = IF g.raised THEN "GeneratedFile" ELSE "none"
    /\ template_path' = g.template
    /\ pc' = "scanned"

\* check_generated_file(path)
ScanCall ==
    /\ pc = "new"
    /\ Scanned(check_generated_file(file, sib_in, sib_m4))
    /\ UNCHANGED <<file, env, orig_content, parsed, rewritten_content,
                   updated_content, changed, body_raised, probe, nmut,
                   mutated>>

SpecScan == InitScan /\ [][ScanCall]_vars

\* The line (from 1) of the first banner in the file, 0 when it has none.
BannerLines(f) == {n \in 1..Len(f.l) : f.l[n] = Banner}
FirstBanner(f) ==
    IF BannerLines(f) = {} THEN 0
    ELSE CHOOSE n \in BannerLines(f) : \A k \in BannerLines(f) : n <= k

\* C12: on a file without .in/.m4 sibling, check_generated_file raises
\* GeneratedFile when the first banner is on one of the lines 1 to 20, and
\* does not when it is on line 21 or later or nowhere.
C12_ScanFirstTwentyLines ==
    (pc = "scanned" /\ ~sib_in /\ ~sib_m4) =>
        (exc = "GeneratedFile" <=> FirstBanner(file) \in 1..20)

\* ------------------------------------------------------------ two sessions
\* A second Editor session runs on another path while the session on `path`
\* does: on path+".in", on path+".m4", or on a path that is neither.  Both
\* get allow_reformatting from the same environment.
OtherPaths == {".in", ".m4", "elsewhere"}

\* The file at the path of the second session, given whether the siblings
\* of `path` exist.
OtherFile(pth, in0, m40) ==
    IF (pth = ".in" /\ ~in0) \/ (pth = ".m4" /\ ~m40)
    THEN {NoFile}
    ELSE IF pth = "elsewhere" THEN {NoFile, File(<<EntryB>>)}
    ELSE {File(<<EntryB>>)}

InitTwo ==
    /\ file \in {NoFile} \cup {File(l) : l \in Texts({EntryA}, MaxLen - 1)}
    /\ file0 = file
    /\ sib_in \in BOOLEAN
    /\ sib_m4 \in BOOLEAN
    /\ merge3_version = "new"
    /\ allow_generated \in BOOLEAN
    /\ allow_reformatting \in BOOLEAN
    /\ nonexistant \in {"raise", "none"}
    /\ pc = "new"
    /\ orig_content = None
    /\ parsed = ParsedNone
    /\ rewritten_content = None
    /\ updated_content = None
    /\ changed = "unset"
    /\ exc = "none"
    /\ template_path = "none"
    /\ body_raised = FALSE
    /\ probe = "unset"
    /\ nmut = 0
    /\ mutated = FALSE
    /\ rel = NoCall
    /\ \E pth \in OtherPaths, h \in {"raise", "none"} :
        \E f \in OtherFile(pth, sib_in, sib_m4) :
            other = Session2(pth, h, f, sib_in, sib_m4)

\* Editor.__enter__ of the second session
entered(o, during) ==
    IF o.file.exists
    THEN [o EXCEPT !.pc = "open", !.orig_content = Str(o.file.l),
                   !.parsed = Parse(Str(o.file.l)),
                   !.rewritten_content = Format(Parse(Str(o.file.l))),
                   !.overlap = during]
    ELSE IF CalledHook(o.hook) = "raise"
    THEN [o EXCEPT !.pc = "enter_failed", !.exc = "FileNotFoundError"]
    ELSE [o EXCEPT !.pc = "open", !.overlap = during]

OtherEnter ==
    /\ other.pc = "new"
    /\ other' = entered(other, pc = "open")
    /\ UNCHANGED <<file, sib_in, sib_m4, merge3_version, allow_generated,
                   allow_reformatting, nonexistant, file0, pc, orig_content,
                   parsed, rewritten_content, updated_content, changed, exc,
                   template_path, body_raised, probe, nmut, mutated, rel>>

\* MaintscriptEditor.append(entry) in the body of the second session
OtherAppend ==
    /\ other.pc = "open"
    /\ other.nmut < MaxMut
    /\ \E e \in Entries :
        other' = [other EXCEPT
                    !.parsed = IF other.parsed.none THEN Parsed(<<e>>)
                               ELSE Parsed(Append(other.parsed.l, e)),
                    !.nmut = other.nmut + 1]
    /\ UNCHANGED <<file, sib_in, sib_m4, merge3_version, allow_generated,
                   allow_reformatting, nonexistant, file0, pc, orig_content,
                   parsed, rewritten_content, updated_content, changed, exc,
                   template_path, body_raised, probe, nmut, mutated, rel>>

\* MaintscriptEditor.__delitem__ in the body of the second session
OtherDel ==
    /\ other.pc = "open"
    /\ other.nmut < MaxMut
    /\ \E n \in 1..Len(other.parsed.l) :
        /\ other.parsed.l[n] \in Entries
        /\ other' = [other EXCEPT
                        !.parsed = Parsed(SubSeq(other.parsed.l, 1, n - 1)
                                          \o SubSeq(other.parsed.l, n + 1,
                                                    Len(other.parsed.l))),
                        !.nmut = other.nmut + 1]
    /\ UNCHANGED <<file, sib_in, sib_m4, merge3_version, allow_generated,
                   allow_reformatting, nonexistant, file0, pc, orig_content,
                   parsed, rewritten_content, updated_content, changed, exc,
                   template_path, body_raised, probe, nmut, mutated, rel>>

\* Editor.__exit__ of a session on the file f, alone: the path of the second
\* session has no siblings, and its allow_generated is the default False.
exit_alone(o, f, has_in, has_m4, allow_gen, allow_ref, m3) ==
    exit_editor(UpdatedContent(o.parsed), f, has_in, has_m4, o.orig_content,
                o.rewritten_content, allow_gen, allow_ref, m3, FALSE)

\* What the exit x of the second session leaves in its Editor.
exited(o, x, during) ==
    [o EXCEPT !.pc = "closed", !.file = x.file, !.exc = x.exc,
              !.updated_content = UpdatedContent(o.parsed),
              !.changed = IF x.assigned THEN BoolStr(x.ret) ELSE o.changed,
              !.overlap = o.overlap \/ during]

\* os.path.exists(path + ext) after the second session wrote or unlinked its
\* file f: the file is that sibling only when the session is on path + ext.
sibling_after_any(pth, ext, f, sib) == f.exists

sibling_after(pth, ext, f, sib) == IF pth = ext THEN f.exists ELSE sib

OtherExited(o) ==
    /\ other' = o
    /\ sib_in' = sibling_after(o.path, ".in", o.file, sib_in)
    /\ sib_m4' = sibling_after(o.path, ".m4", o.file, sib_m4)

OtherExit ==
    /\ other.pc = "open"
    /\ OtherExited(exited(other,
                          exit_alone(other, other.file, FALSE, FALSE, FALSE,
                                     allow_reformatting, merge3_version),
                          pc = "open"))
    /\ UNCHANGED <<file, merge3_version, allow_generated,
                   allow_reformatting, nonexistant, file0, pc, orig_content,
                   parsed, rewritten_content, updated_content, changed, exc,
                   template_path, body_raised, probe, nmut, mutated, rel>>

NextTwo ==
    \/ Enter \/ AppendEntry \/ DelEntry \/ Exit
    \/ OtherEnter \/ OtherAppend \/ OtherDel \/ OtherExit

SpecTwo == InitTwo /\ [][NextTwo]_vars

\* What a session would have left had it run alone: the exit x of that run
\* against the file f, the exception e and the changed flag c it did leave.
SameOutcome(x, f, e, c) ==
    /\ f = x.file
    /\ e = x.exc
    /\ c = (IF x.assigned THEN BoolStr(x.ret) ELSE "unset")

\* The session on `path` alone: the siblings are as they were at the start.
SoloFirst ==
    exit_editor(UpdatedContent(parsed), file0, other.sib_in0, other.sib_m40,
                orig_content, rewritten_content, allow_generated,
                allow_reformatting, merge3_version, body_raised)

\* The second session alone.
SoloSecond ==
    exit_alone(other, other.file0, FALSE, FALSE, FALSE, allow_reformatting,
               merge3_version)

FirstIndependent ==
    pc = "closed" => SameOutcome(SoloFirst, file, exc, changed)

SecondIndependent ==
    other.pc = "closed" =>
        SameOutcome(SoloSecond, other.file, other.exc, other.changed)

\* C13 as claimed: two sessions on different paths, their steps interleaved
\* in any way: each leaves the file, changed flag and exception it would
\* have left had the other not run.
C13_Claimed == FirstIndependent /\ SecondIndependent

\* C13 as amended: the same when the path of neither session is path+".in"
\* or path+".m4" of the other; the session on such a template is still left
\* alone, but not the session on the path generated from it, whose exit
\* looks for the template.
C13_IndependentSessions ==
    /\ other.path = "elsewhere" => FirstIndependent
    /\ SecondIndependent

C13_Witness ==
    /\ pc = "closed"
    /\ other.pc = "closed"
    /\ other.path = "elsewhere"
    /\ other.overlap
    /\ changed = "True"
    /\ file /= file0
    /\ other.changed = "True"
    /\ other.file /= other.file0

\* ===================================================== relations of control.py
\* A relation string is a sequence of tokens: the separators "," and "|",
\* the white space " " and "\n", package names, a substitution variable, and
\* version constraints "(op version)" in the spacing str() writes or in
\* another one.  Architecture and build-profile restrictions are left out.
Comma == ","
Pipe == "|"
Space == " "
Newline == "\n"
WhiteSpace == {Space, Newline}

\* Names the grammar of PkgRelation accepts, and a substitution variable,
\* which it does not.
PkgNames == {"bzr", "foo"}
SubstVar == "${misc:Depends}"

\* Version strings, and Version(v) as its place in the order of versions:
\* "2-0" and "2" are the same version spelled differently.
VersionStrings == {"1", "2", "2-0", "3"}
Version(v) ==
    IF v = "1" THEN 1 ELSE IF v = "2" THEN 2 ELSE IF v = "2-0" THEN 2 ELSE 3

\* The operators of the data model, and "<", which the grammar also accepts.
TableOps == {">=", "=", "<<", "<=", ">>"}
LegacyOps == {"<"}

\* The constraint tokens: the text, the (relop, version) it parses to, and
\* whether the text is what str() writes for that pair.
ConTable ==
    {[tok |-> "(>= 1)", op |-> ">=", ver |-> "1", canon |-> TRUE],
     [tok |-> "(>= 2)", op |-> ">=", ver |-> "2", canon |-> TRUE],
     [tok |-> "(>= 3)", op |-> ">=", ver |-> "3", canon |-> TRUE],
     [tok |-> "(>= 2-0)", op |-> ">=", ver |-> "2-0", canon |-> TRUE],
     [tok |-> "(>=2)", op |-> ">=", ver |-> "2", canon |-> FALSE],
     [tok |-> "(>> 1)", op |-> ">>", ver |-> "1", canon |-> TRUE],
     [tok |-> "(>> 2)", op |-> ">>", ver |-> "2", canon |-> TRUE],
     [tok |-> "(>> 3)", op |-> ">>", ver |-> "3", canon |-> TRUE],
     [tok |-> "(= 1)", op |-> "=", ver |-> "1", canon |-> TRUE],
     [tok |-> "(= 2)", op |-> "=", ver |-> "2", canon |-> TRUE],
     [tok |-> "(= 3)", op |-> "=", ver |-> "3", canon |-> TRUE],
     [tok |-> "(= 2-0)", op |-> "=", ver |-> "2-0", canon |-> TRUE],
     [tok |-> "(<< 1)", op |-> "<<", ver |-> "1", canon |-> TRUE],
     [tok |-> "(<< 2)", op |-> "<<", ver |-> "2", canon |-> TRUE],
     [tok |-> "(<< 3)", op |-> "<<", ver |-> "3", canon |-> TRUE],
     [tok |-> "(<= 1)", op |-> "<=", ver |-> "1", canon |-> TRUE],
     [tok |-> "(<= 2)", op |-> "<=", ver |-> "2", canon |-> TRUE],
     [tok |-> "(<= 3)", op |-> "<=", ver |-> "3", canon |-> TRUE],
     [tok |-> "(< 1)", op |-> "<", ver |-> "1", canon |-> TRUE]}

ConToks == {c.tok : c \in ConTable}
ConOf(t) == CHOOSE c \in ConTable : c.tok = t
\* " ({} {})".format(*version) without its leading blank
ConText(version) ==
    (CHOOSE c \in ConTable :
        c.op = version[1] /\ c.ver = version[2] /\ c.canon).tok

\* PkgRelation: the name (a string) and the version, <<>> for None.
PkgRelation(n, version) == [name |-> n, version |-> version]

\* ------------------------------------------------------- string functions
\* The first position of s that holds a token of T, 0 when there is none.
Find(s, T) ==
    IF \A i \in 1..Len(s) : s[i] \notin T THEN 0
    ELSE CHOOSE i \in 1..Len(s) :
            s[i] \in T /\ \A j \in 1..(i - 1) : s[j] \notin T

\* s.split(sep)
RECURSIVE Split(_, _)
SplitAt(s, sep, i) ==
    IF i = 0 THEN <<s>>
    ELSE <<SubSeq(s, 1, i - 1)>> \o Split(SubSeq(s, i + 1, Len(s)), sep)

Split(s, sep) == SplitAt(s, sep, Find(s, {sep}))

\* sep.join(parts)
RECURSIVE Join(_, _)
Join(parts, sep) ==
    IF parts = <<>> THEN <<>>
    ELSE IF Len(parts) = 1 THEN parts[1]
    ELSE parts[1] \o sep \o Join(Tail(parts), sep)

\* s.isspace()
IsSpace(s) == s /= <<>> /\ \A i \in 1..Len(s) : s[i] \in WhiteSpace

\* The number of white space tokens s starts with and ends with.
LeadingWs(s) ==
    IF \A i \in 1..Len(s) : s[i] \in WhiteSpace THEN Len(s)
    ELSE (CHOOSE i \in 1..Len(s) :
            s[i] \notin WhiteSpace
            /\ \A j \in 1..(i - 1) : s[j] \in WhiteSpace) - 1

TrailingWs(s) ==
    IF \A i \in 1..Len(s) : s[i] \in WhiteSpace THEN Len(s)
    ELSE Len(s) - (CHOOSE i \in 1..Len(s) :
                    s[i] \notin WhiteSpace
                    /\ \A j \in (i + 1)..Len(s) : s[j] \in WhiteSpace)

LStrip(s) == SubSeq(s, LeadingWs(s) + 1, Len(s))
RStrip(s) == SubSeq(s, 1, Len(s) - TrailingWs(s))
StripWs(s) == LStrip(RStrip(s))

\* ----------------------------------------------------------- PkgRelation
\* __dep_RE on one alternative: white space, a name, optionally white space
\* and a version constraint, white space.
DepMatches(raw) ==
    /\ StripWs(raw) /= <<>>
    /\ Head(StripWs(raw)) \in PkgNames
    /\ \/ Len(StripWs(raw)) = 1
       \/ /\ StripWs(raw)[Len(StripWs(raw))] \in ConToks
          /\ \A i \in 2..(Len(StripWs(raw)) - 1) :
                StripWs(raw)[i] \in WhiteSpace

\* parse_rel of PkgRelation.parse: what does not match is kept raw, as the
\* name.
parse_rel(raw) ==
    IF ~DepMatches(raw) THEN PkgRelation(raw, <<>>)
    ELSE IF Len(StripWs(raw)) = 1 THEN PkgRelation(StripWs(raw), <<>>)
    ELSE PkgRelation(<<Head(StripWs(raw))>>,
                     <<ConOf(StripWs(raw)[Len(StripWs(raw))]).op,
                       ConOf(StripWs(raw)[Len(StripWs(raw))]).ver>>)

\* __pipe_sep_RE.split(text): the white space around a "|" goes with it.
PipePiece(parts, k) ==
    IF Len(parts) = 1 THEN parts[k]
    ELSE IF k = 1 THEN RStrip(parts[k])
    ELSE IF k = Len(parts) THEN LStrip(parts[k])
    ELSE StripWs(parts[k])

PipeSplitOf(parts) == [k \in 1..Len(parts) |-> PipePiece(parts, k)]

PipeSplit(text) == PipeSplitOf(Split(text, Pipe))

\* PkgRelation.parse / parse_relation
parse_relation_of(or_deps) == [k \in 1..Len(or_deps) |-> parse_rel(or_deps[k])]

parse_relation(t) ==
    IF t = <<>> THEN <<>> ELSE parse_relation_of(PipeSplit(t))

\* PkgRelation.str
PkgStr(o) ==
    IF o.version = <<>> THEN o.name
    ELSE o.name \o <<Space, ConText(o.version)>>

\* --------------------------------------- parse_relations, format_relations
\* One entry of parse_relations: (head_whitespace, relation, tail_whitespace)
RelEntry(h, r, t) == [head |-> h, relation |-> r, tail |-> t]

parse_top_level(top_level) ==
    IF IsSpace(top_level) THEN RelEntry(top_level, <<>>, <<>>)
    ELSE RelEntry(SubSeq(top_level, 1, LeadingWs(top_level)),
                  parse_relation(StripWs(top_level)),
                  SubSeq(top_level, Len(top_level) - TrailingWs(top_level) + 1,
                         Len(top_level)))

parse_relations_of(tops) == [k \in 1..Len(tops) |-> parse_top_level(tops[k])]

parse_relations(text) ==
    IF text = <<>> THEN <<>> ELSE parse_relations_of(Split(text, Comma))

\* head_whitespace + " | ".join(o.str() for o in relation) + tail_whitespace
format_entry(e) ==
    e.head
        \o Join([k \in 1..Len(e.relation) |-> PkgStr(e.relation[k])],
                <<Space, Pipe, Space>>)
        \o e.tail

\* The first line is kept as it is, a later line only if it is not blank.
RECURSIVE SelectLines(_, _, _)
SelectLines(lines, keep, i) ==
    IF i > Len(lines) THEN <<>>
    ELSE (IF i \in keep THEN <<lines[i]>> ELSE <<>>)
            \o SelectLines(lines, keep, i + 1)

filter_lines(lines) ==
    SelectLines(lines,
                {i \in 1..Len(lines) : i = 1 \/ StripWs(lines[i]) /= <<>>}, 1)

format_relations(relations) ==
    Join(filter_lines(
            Split(Join([k \in 1..Len(relations) |-> format_entry(relations[k])],
                       <<Comma>>),
                  Newline)),
         <<Newline>>)

\* ------------------------------------------------ calls of pure functions
\* The functions of control.py on relation strings open no file: while one
\* is called no editor session exists.
NoEditor ==
    /\ file = NoFile
    /\ file0 = NoFile
    /\ sib_in = FALSE
    /\ sib_m4 = FALSE
    /\ merge3_version = "new"
    /\ allow_generated = FALSE
    /\ allow_reformatting = FALSE
    /\ nonexistant = "raise"
    /\ pc = "new"
    /\ orig_content = None
    /\ parsed = ParsedNone
    /\ rewritten_content = None
    /\ updated_content = None
    /\ changed = "unset"
    /\ exc = "none"
    /\ template_path = "none"
    /\ body_raised = FALSE
    /\ probe = "unset"
    /\ nmut = 0
    /\ mutated = FALSE
    /\ other = NoSession

\* The sequences of at most n tokens of the alphabet A.
TokenStrings(A, n) == UNION {[1..k -> A] : k \in 0..n}

\* The call returns: out is what it returned.  Nothing else changes.
Returned(out) ==
    /\ rel' = [rel EXCEPT !.done = TRUE, !.out = out]
    /\ UNCHANGED <<file, sib_in, sib_m4, merge3_version, allow_generated,
                   allow_reformatting, nonexistant, pc, orig_content, parsed,
                   rewritten_content, updated_content, changed, exc,
                   template_path, body_raised, probe, nmut, mutated, file0,
                   other>>

\* ---------------------------------- format_relations(parse_relations(s))
MaxTok == 4
RelAlphabet ==
    {Comma, Pipe, Space, Newline, "bzr", "foo", SubstVar, "(>= 2)", "(>=2)"}

InitRelations ==
    /\ NoEditor
    /\ rel \in {[fn |-> "format_relations", done |-> FALSE, s |-> s,
                  out |-> <<>>] : s \in TokenStrings(RelAlphabet, MaxTok)}

FormatParse ==
    /\ rel.fn = "format_relations"
    /\ ~rel.done
    /\ Returned(format_relations(parse_relations(rel.s)))

SpecRelations == InitRelations /\ [][FormatParse]_vars

\* The relation-list strings of Debian's syntax over the tokens: entries
\* separated by commas, the last of which may be empty (a trailing comma);
\* an entry is white space, an OR-group and white space; an OR-group is
\* atoms separated by "|" with optional white space around it; an atom is a
\* substitution variable or a name, optionally followed by a version
\* constraint after optional blanks.
ValidAtom(a) ==
    \/ a = <<SubstVar>>
    \/ /\ a /= <<>>
       /\ Head(a) \in PkgNames
       /\ \/ Len(a) = 1
          \/ /\ a[Len(a)] \in ConToks
             /\ \A i \in 2..(Len(a) - 1) : a[i] = Space

ValidGroupOf(alts) == \A k \in 1..Len(alts) : ValidAtom(StripWs(alts[k]))

ValidGroup(g) == ValidGroupOf(Split(g, Pipe))

ValidEntries(tops) ==
    \A k \in 1..Len(tops) :
        \/ ValidGroup(StripWs(tops[k]))
        \/ k = Len(tops) /\ k > 1 /\ StripWs(tops[k]) = <<>>

ValidRelations(s) == s = <<>> \/ ValidEntries(Split(s, Comma))

\* C14 (counterexample): for every valid relation-list string s,
\* format_relations(parse_relations(s)) is s itself.
C14_RoundTrip ==
    (rel.fn = "format_relations" /\ rel.done /\ ValidRelations(rel.s))
        => rel.out = rel.s

\* ============================================================ is_dep_implied
\* What a call gives: the boolean it returns, as Python writes it, or the
\* exception it raises.
Raises == "AssertionError"

\* dep.version[0] == ">="
implied_ge_or_equal(v, op, w) ==
    IF op = ">>" THEN BoolStr(w >= v)
    ELSE IF op \in {">=", "="} THEN BoolStr(w >= v)
    ELSE IF op \in {"<<", "<="} THEN "False"
    ELSE Raises

implied_ge(v, op, w) ==
    IF op = ">>" THEN BoolStr(w > v)
    ELSE IF op \in {">=", "="} THEN BoolStr(w >= v)
    ELSE IF op \in {"<<", "<="} THEN "False"
    ELSE Raises

\* dep.version[0] == "="
implied_eq(v, op, w) == IF op = "=" THEN BoolStr(w = v) ELSE "False"

\* A "<<" that an outer "<=" or "=" of the same version implies.
implied_lt_or_equal(v, op, w) ==
    IF op \in {"<<", "<=", "="} THEN BoolStr(w <= v)
    ELSE IF op \in {">>", ">="} THEN "False"
    ELSE Raises

\* dep.version[0] == "<<"
implied_lt(v, op, w) ==
    IF op = "<<" THEN BoolStr(w <= v)
    ELSE IF op \in {"<=", "="} THEN BoolStr(w < v)
    ELSE IF op \in {">>", ">="} THEN "False"
    ELSE Raises

\* dep.version[0] == "<="
implied_le(v, op, w) ==
    IF op \in {"<=", "=", "<<"} THEN BoolStr(w <= v)
    ELSE IF op \in {">>", ">="} THEN "False"
    ELSE Raises

\* dep.version[0] == ">>"
implied_gt(v, op, w) ==
    IF op = ">>" THEN BoolStr(w >= v)
    ELSE IF op \in {"=", ">="} THEN BoolStr(w > v)
    ELSE IF op \in {"<<", "<="} THEN "False"
    ELSE Raises

\* The chain over dep.version[0], both versions given and different.
implied_by_version(dop, v, op, w) ==
    IF dop = ">=" THEN implied_ge(v, op, w)
    ELSE IF dop = "=" THEN implied_eq(v, op, w)
    ELSE IF dop = "<<" THEN implied_lt(v, op, w)
    ELSE IF dop = "<=" THEN implied_le(v, op, w)
    ELSE IF dop = ">>" THEN implied_gt(v, op, w)
    ELSE Raises

is_dep_implied(dep, outer) ==
    IF dep.name /= outer.name THEN "False"
    ELSE IF dep.version = <<>> THEN "True"
    ELSE IF outer.version = dep.version THEN "True"
    ELSE IF outer.version = <<>> THEN "False"
    ELSE implied_by_version(dep.version[1], Version(dep.version[2]),
                            outer.version[1], Version(outer.version[2]))

\* The atoms is_dep_implied is called with: a name alone, or a name and a
\* version under one of the operators the grammar accepts.
Atoms ==
    {PkgRelation(<<n>>, v) :
        n \in PkgNames,
        v \in {<<>>} \cup ((TableOps \cup LegacyOps) \X VersionStrings)}

InitDep ==
    /\ NoEditor
    /\ rel \in {[fn |-> "is_dep_implied", done |-> FALSE, dep |-> d,
                 outer |-> o, out |-> "none"] : d \in Atoms, o \in Atoms}

DepImplied ==
    /\ rel.fn = "is_dep_implied"
    /\ ~rel.done
    /\ Returned(is_dep_implied(rel.dep, rel.outer))

SpecDep == InitDep /\ [][DepImplied]_vars

\* The atoms of the data model: those whose operator, if any, is one of
\* "=", ">=", "<=", "<<", ">>".
InDataModel(a) == a.version = <<>> \/ a.version[1] \in TableOps

\* The operator table: dep (dop v) and outer (op w) of the same name, w and
\* v compared as versions.
OperatorTable(dop, v, op, w) ==
    \/ dop = ">=" /\ op = ">>" /\ w > v
    \/ dop = ">=" /\ op \in {">=", "="} /\ w >= v
    \/ dop = "=" /\ op = "=" /\ w = v
    \/ dop = "<<" /\ op = "<<" /\ w <= v
    \/ dop = "<<" /\ op \in {"<=", "="} /\ w < v
    \/ dop = "<=" /\ op \in {"<=", "=", "<<"} /\ w <= v
    \/ dop = ">>" /\ op = ">>" /\ w >= v
    \/ dop = ">>" /\ op \in {"=", ">="} /\ w > v

Tabled(dep, outer) ==
    IF dep.name /= outer.name THEN FALSE
    ELSE IF dep.version = <<>> THEN TRUE
    ELSE IF dep.version = outer.version THEN TRUE
    ELSE IF outer.version = <<>> THEN FALSE
    ELSE OperatorTable(dep.version[1], Version(dep.version[2]),
                       outer.version[1], Version(outer.version[2]))

\* C15: for every pair of atoms of the data model, is_dep_implied(dep, outer)
\* returns what the operator table says: False for different names, True
\* for a dep without version or with the version tuple of outer, False when
\* only dep has a version, else the entry of the operator pair, False for
\* every pair the table does not list.
C15_OperatorTable ==
    (rel.fn = "is_dep_implied" /\ rel.done
        /\ InDataModel(rel.dep) /\ InDataModel(rel.outer))
        => rel.out = BoolStr(Tabled(rel.dep, rel.outer))

\* A call decided by the table on the versions: both atoms carry a version,
\* the tuples differ, and outer implies dep.
C15_Witness ==
    /\ rel.fn = "is_dep_implied"
    /\ rel.done
    /\ rel.dep.name = rel.outer.name
    /\ rel.dep.version /= <<>>
    /\ rel.outer.version /= <<>>
    /\ rel.dep.version /= rel.outer.version
    /\ rel.dep.version[1] = ">="
    /\ rel.outer.version[1] = ">>"
    /\ rel.out = "True"

\* ======================================================= is_relation_implied
\* any(is_dep_implied(inner_dep, outer_dep) for outer_dep in outer_rel) for
\* each inner_dep in turn: the first pair, in that order, for which
\* is_dep_implied does not return False decides, by returning True or by
\* raising.
Decides(inner_rel, outer_rel, p) ==
    is_dep_implied(inner_rel[p[1]], outer_rel[p[2]]) /= "False"

DepPairs(inner_rel, outer_rel) == (1..Len(inner_rel)) \X (1..Len(outer_rel))

FirstDecides(inner_rel, outer_rel) ==
    CHOOSE p \in DepPairs(inner_rel, outer_rel) :
        /\ Decides(inner_rel, outer_rel, p)
        /\ \A q \in DepPairs(inner_rel, outer_rel) :
                (q[1] < p[1] \/ (q[1] = p[1] /\ q[2] < p[2]))
                    => ~Decides(inner_rel, outer_rel, q)

any_implied_by_all(inner_rel, outer_rel) ==
    BoolStr(\E i \in 1..Len(inner_rel) : \A j \in 1..Len(outer_rel) :
                is_dep_implied(inner_rel[i], outer_rel[j]) = "True")

any_implied(inner_rel, outer_rel) ==
    IF \A p \in DepPairs(inner_rel, outer_rel) :
            ~Decides(inner_rel, outer_rel, p)
    THEN "False"
    ELSE is_dep_implied(inner_rel[FirstDecides(inner_rel, outer_rel)[1]],
                        outer_rel[FirstDecides(inner_rel, outer_rel)[2]])

relation_implied_unequal(inner_rel, outer_rel) ==
    any_implied(inner_rel, outer_rel)

relation_implied(inner_rel, outer_rel) ==
    IF inner_rel = outer_rel THEN "True"
    ELSE any_implied(inner_rel, outer_rel)

\* inner and outer are given as strings
is_relation_implied(inner, outer) ==
    relation_implied(parse_relation(inner), parse_relation(outer))

\* The alternatives of the relations is_relation_implied is called with (one
\* of them a substitution variable, which PkgRelation keeps as a raw name,
\* one with an operator outside the data model), and the relations of at
\* most n of them, as strings.
MaxAlt == 2
AtomTexts ==
    {<<"bzr">>, <<"foo">>, <<SubstVar>>, <<"bzr", Space, "(= 3)">>,
     <<"bzr", Space, "(>= 2)">>, <<"bzr", Space, "(>= 3)">>,
     <<"bzr", Space, "(< 1)">>}

GroupTexts(n) ==
    {Join(g, <<Space, Pipe, Space>>) : g \in TokenStrings(AtomTexts, n)}

InitImplied ==
    /\ NoEditor
    /\ rel \in {[fn |-> "is_relation_implied", done |-> FALSE, inner |-> i,
                 outer |-> o, out |-> "none"] :
                    i \in GroupTexts(MaxAlt), o \in GroupTexts(MaxAlt)}

RelationImplied ==
    /\ rel.fn = "is_relation_implied"
    /\ ~rel.done
    /\ Returned(is_relation_implied(rel.inner, rel.outer))

SpecImplied == InitImplied /\ [][RelationImplied]_vars

ImpliedCalled == rel.fn = "is_relation_implied" /\ rel.done

\* C16: is_relation_implied(r, r) is True for every relation r: a single
\* atom, an OR-group, the empty relation, an atom kept as a raw name.
C16_Reflexive == (ImpliedCalled /\ rel.inner = rel.outer) => rel.out = "True"

\* Reflexivity on an OR-group one of whose terms was kept as a raw name.
C16_Witness ==
    /\ ImpliedCalled
    /\ rel.inner = rel.outer
    /\ Len(parse_relation(rel.inner)) = 2
    /\ parse_relation(rel.inner)[2].name = <<SubstVar>>
    /\ rel.out = "True"

\* Every term of the relation is an atom of the data model.
AllInDataModel(r) == \A k \in 1..Len(r) : InDataModel(r[k])

\* Some term of inner_rel is implied by some term of outer_rel.
SomeBySome(inner_rel, outer_rel) ==
    \E i \in 1..Len(inner_rel) : \E j \in 1..Len(outer_rel) :
        is_dep_implied(inner_rel[i], outer_rel[j]) = "True"

ImpliedIffSomeBySome(inner_rel, outer_rel, out) ==
    (AllInDataModel(inner_rel) /\ AllInDataModel(outer_rel))
        => (out = "True"
                <=> (inner_rel = outer_rel \/ SomeBySome(inner_rel, outer_rel)))

ExistentialCase(inner_rel, outer_rel) ==
    /\ Len(inner_rel) = 2
    /\ Len(outer_rel) = 2
    /\ inner_rel /= outer_rel
    /\ AllInDataModel(inner_rel)
    /\ AllInDataModel(outer_rel)
    /\ \E i \in 1..2 : \A j \in 1..2 :
            is_dep_implied(inner_rel[i], outer_rel[j]) = "False"
    /\ \E j \in 1..2 : \A i \in 1..2 :
            is_dep_implied(inner_rel[i], outer_rel[j]) = "False"

SatisfiableWithout(inner_rel, outer_rel) ==
    \E j \in 1..Len(outer_rel) : \A i \in 1..Len(inner_rel) :
        is_dep_implied(inner_rel[i], outer_rel[j]) = "False"

\* C18 (counterexample): is_relation_implied(inner, outer) is False whenever
\* outer has an alternative that implies no term of inner, as 'bzr | foo'
\* has for 'bzr'.
C18_NotImpliedByWiderGroup ==
    (ImpliedCalled
        /\ SatisfiableWithout(parse_relation(rel.inner),
                              parse_relation(rel.outer)))
        => rel.out = "False"

\* ============================================================= _add_relation
\* The heads, or the tails, of the entries first..last of relations.
Heads(relations, first, last) == {relations[k].head : k \in first..last}
Tails(relations, first, last) == {relations[k].tail : k \in first..last}

\* A last entry without relation (what follows a trailing comma) is set
\* aside and put back after the addition.
HasPointlessTail(relations) ==
    Len(relations) > 0 /\ relations[Len(relations)].relation = <<>>

\* The white space the new entry gets in front, and the one the entry
\* before it gets behind: those of the only entry, or those all the other
\* entries agree on, or a best guess.
head_whitespace(relations) ==
    IF Len(relations) = 0 THEN <<>>
    ELSE IF Len(relations) = 1
    THEN (IF relations[1].head /= <<>> THEN relations[1].head ELSE <<Space>>)
    ELSE IF Cardinality(Heads(relations, 2, Len(relations))) = 1
    THEN CHOOSE h \in Heads(relations, 2, Len(relations)) : TRUE
    ELSE relations[Len(relations)].head

tail_whitespace(relations) ==
    IF Len(relations) <= 1 THEN <<>>
    ELSE IF Cardinality(Tails(relations, 1, Len(relations) - 1)) = 1
    THEN CHOOSE t \in Tails(relations, 1, Len(relations) - 1) : TRUE
    ELSE relations[1].tail

\* position == len(relations): the new entry takes the tail of the last one
append_relation(relations, relation) ==
    IF Len(relations) = 0 THEN <<RelEntry(<<>>, relation, <<>>)>>
    ELSE [relations EXCEPT ![Len(relations)].tail = tail_whitespace(relations)]
            \o <<RelEntry(head_whitespace(relations), relation,
                          relations[Len(relations)].tail)>>

\* _add_relation(relations, relation), position None
add_relation(relations, relation) ==
    IF HasPointlessTail(relations)
    THEN append_relation(SubSeq(relations, 1, Len(relations) - 1), relation)
            \o <<relations[Len(relations)]>>
    ELSE append_relation(relations, relation)

\* ==================================================== ensure_minimum_version
\* names = [r.name for r in relation]
names(relation) == [k \in 1..Len(relation) |-> relation[k].name]

is_obsolete(relation, package, minimum_version) ==
    \E k \in 1..Len(relation) :
        /\ relation[k].name = package
        /\ relation[k].version /= <<>>
        /\ \/ /\ relation[k].version[1] = ">>"
              /\ Version(relation[k].version[2]) < Version(minimum_version)
           \/ /\ relation[k].version[1] = ">="
              /\ Version(relation[k].version[2]) <= Version(minimum_version)

obsolete_relations(relations, package, minimum_version) ==
    {i \in 1..Len(relations) :
        /\ Len(relations[i].relation) > 1
        /\ \E k \in 1..Len(relations[i].relation) :
                names(relations[i].relation)[k] = package
        /\ is_obsolete(relations[i].relation, package, minimum_version)}

\* names == [package]
IsSole(e, package) == names(e.relation) = <<package>>

\* relation[0].version is None or below the minimum, whatever its operator
TooLow(e, minimum_version) ==
    \/ e.relation[1].version = <<>>
    \/ Version(e.relation[1].version[2]) < Version(minimum_version)

found_unversioned(relations, package) ==
    \E i \in 1..Len(relations) :
        IsSole(relations[i], package)
            /\ relations[i].relation[1].version = <<>>

found(relations, package) ==
    \E i \in 1..Len(relations) : IsSole(relations[i], package)

min_changed(relations, package, minimum_version) ==
    \/ ~found(relations, package)
    \/ \E i \in 1..Len(relations) :
            /\ IsSole(relations[i], package)
            /\ TooLow(relations[i], minimum_version)

\* relation[0].version = (">=", str(minimum_version)) where it is too low
with_minimum(relations, package, minimum_version) ==
    [i \in 1..Len(relations) |->
        IF IsSole(relations[i], package)
            /\ TooLow(relations[i], minimum_version)
        THEN [relations[i] EXCEPT
                !.relation[1].version = <<">=", minimum_version>>]
        ELSE relations[i]]

with_found(relations, package, minimum_version) ==
    IF found(relations, package)
    THEN with_minimum(relations, package, minimum_version)
    ELSE add_relation(relations,
                      <<PkgRelation(package, <<">=", minimum_version>>)>>)

\* for i in reversed(obsolete_relations): del relations[i]
without_obsolete(relations, obsolete) ==
    SelectLines(relations, (1..Len(relations)) \ obsolete, 1)

minimum_version_of(relationstr, relations, package, minimum_version) ==
    IF min_changed(relations, package, minimum_version)
    THEN format_relations(
            without_obsolete(
                with_found(relations, package, minimum_version),
                obsolete_relations(relations, package, minimum_version)))
    ELSE relationstr

ensure_minimum_version(relationstr, package, minimum_version) ==
    minimum_version_of(relationstr, parse_relations(relationstr), package,
                       minimum_version)

\* The relation strings ensure_minimum_version is called with, the package,
\* and the pairs of a minimum version and a second one that is not above it.
MinAlphabet ==
    {Comma, Pipe, Space, Newline, "bzr", "foo", "(>= 1)", "(<< 3)"}

MinVersionPairs ==
    {<<"1", "1">>, <<"2", "1">>, <<"2-0", "2">>, <<"3", "2-0">>}

InitMinVersion ==
    /\ NoEditor
    /\ rel \in {[fn |-> "ensure_minimum_version", done |-> FALSE,
                 again |-> FALSE, s |-> s, package |-> <<"bzr">>,
                 v |-> vs[1], v2 |-> vs[2], out |-> <<>>, out2 |-> <<>>] :
                    s \in TokenStrings(MinAlphabet, MaxTok),
                    vs \in MinVersionPairs}

\* ensure_minimum_version(s, package, v)
MinVersion ==
    /\ rel.fn = "ensure_minimum_version"
    /\ ~rel.done
    /\ Returned(ensure_minimum_version(rel.s, rel.package, rel.v))

\* ensure_minimum_version on what the first call returned, with v2
MinVersionAgain ==
    /\ rel.fn = "ensure_minimum_version"
    /\ rel.done
    /\ ~rel.again
    /\ rel' = [rel EXCEPT
                !.again = TRUE,
                !.out2 = ensure_minimum_version(rel.out, rel.package, rel.v2)]
    /\ UNCHANGED <<file, sib_in, sib_m4, merge3_version, allow_generated,
                   allow_reformatting, nonexistant, pc, orig_content, parsed,
                   rewritten_content, updated_content, changed, exc,
                   template_path, body_raised, probe, nmut, mutated, file0,
                   other>>

SpecMinVersion == InitMinVersion /\ [][MinVersion \/ MinVersionAgain]_vars

\* C19: for every relation string s, package p and versions v2 <= v,
\* ensure_minimum_version(ensure_minimum_version(s, p, v), p, v2) is exactly
\* the string ensure_minimum_version(s, p, v).
C19_Idempotent ==
    (rel.fn = "ensure_minimum_version" /\ rel.again) => rel.out2 = rel.out

\* The first call raised the version an entry of s had, the second asked
\* for a lower version.
C19_Witness ==
    /\ rel.fn = "ensure_minimum_version"
    /\ rel.again
    /\ found(parse_relations(rel.s), rel.package)
    /\ ~found_unversioned(parse_relations(rel.s), rel.package)
    /\ rel.out /= rel.s
    /\ Version(rel.v2) < Version(rel.v)
    /\ rel.out2 = rel.out

\* Every entry of relations that consists solely of package implies
\* 'package (>= minimum_version)'.
AllAtLeast(relations, package, minimum_version) ==
    \A i \in 1..Len(relations) :
        IsSole(relations[i], package) =>
            is_dep_implied(PkgRelation(package, <<">=", minimum_version>>),
                           relations[i].relation[1]) = "True"

\* C20 (counterexample): the result of ensure_minimum_version(s, p, v) has an
\* entry consisting solely of p, and every such entry only admits versions
\* >= v, whatever operator the entry had in s.
C20_VersionRequired ==
    (rel.fn = "ensure_minimum_version" /\ rel.done)
        => /\ found(parse_relations(rel.out), rel.package)
           /\ AllAtLeast(parse_relations(rel.out), rel.package, rel.v)

\* ====================================================== ensure_exact_version
\* What a function that may raise gives: the exception, or the string it
\* returns.
Raised(e) == [exc |-> e, value |-> <<>>]
Value(s) == [exc |-> "none", value |-> s]

\* len(names) > 1 and names[0] == package
IsComplexFirst(e, package) ==
    Len(e.relation) > 1 /\ e.relation[1].name = package

\* relation[0].version is None or
\* (relation[0].version[0], Version(relation[0].version[1])) != ("=", version)
NotExact(e, version) ==
    \/ e.relation[1].version = <<>>
    \/ e.relation[1].version[1] /= "="
    \/ Version(e.relation[1].version[2]) /= Version(version)

exact_changed(relations, package, version) ==
    \/ ~found(relations, package)
    \/ \E i \in 1..Len(relations) :
            IsSole(relations[i], package) /\ NotExact(relations[i], version)

\* relation[0].version = ("=", str(version)) where it is not that already
with_exact(relations, package, version) ==
    [i \in 1..Len(relations) |->
        IF IsSole(relations[i], package) /\ NotExact(relations[i], version)
        THEN [relations[i] EXCEPT !.relation[1].version = <<"=", version>>]
        ELSE relations[i]]

exact_version_of(relationstr, relations, package, version) ==
    IF \E i \in 1..Len(relations) : IsComplexFirst(relations[i], package)
    THEN Raised("Exception")
    ELSE IF ~exact_changed(relations, package, version)
    THEN Value(relationstr)
    ELSE IF found(relations, package)
    THEN Value(format_relations(with_exact(relations, package, version)))
    ELSE Value(format_relations(
            add_relation(relations,
                         <<PkgRelation(package, <<"=", version>>)>>)))

ensure_exact_version(relationstr, package, version) ==
    exact_version_of(relationstr, parse_relations(relationstr), package,
                     version)

\* ======================================================= ensure_some_version
\* The entries at which the loop of ensure_some_version stops: by raising,
\* or by returning the string as it is.
SomeStops(relations, package) ==
    {i \in 1..Len(relations) :
        IsComplexFirst(relations[i], package) \/ IsSole(relations[i], package)}

First(S) == CHOOSE i \in S : \A j \in S : i <= j

some_version_of(relationstr, relations, package) ==
    IF SomeStops(relations, package) = {}
    THEN Value(format_relations(
            add_relation(relations, parse_relation(package))))
    ELSE IF IsSole(relations[First(SomeStops(relations, package))], package)
    THEN Value(relationstr)
    ELSE Raised("Exception")

ensure_some_version(relationstr, package) ==
    some_version_of(relationstr, parse_relations(relationstr), package)

\* =================================== filter_dependencies and drop_dependency
\* A keep that looks at the first alternative only.
keep_first_other(relation, package) ==
    relation = <<>> \/ relation[1].name /= package

\* keep of drop_dependency: set(names) != {package}
keep(relation, package) ==
    {relation[k].name : k \in 1..Len(relation)} /= {package}

\* relations as filter_dependencies leaves its argument: when the first
\* entry is removed and there is a second one, the second gets the head and
\* the tail of the first.
spacing_copied(relations, package) ==
    IF Len(relations) > 1 /\ ~keep(relations[1].relation, package)
    THEN [relations EXCEPT ![2].head = relations[1].head,
                           ![2].tail = relations[1].tail]
    ELSE relations

\* ret of filter_dependencies(relations, keep)
filter_dependencies(relations, package) ==
    SelectLines(spacing_copied(relations, package),
                {i \in 1..Len(relations) : keep(relations[i].relation, package)},
                1)

drop_dependency_formats(relationstr, relations, package) ==
    format_relations(filter_dependencies(relations, package))

drop_dependency_of(relationstr, relations, package) ==
    IF spacing_copied(relations, package)
            /= filter_dependencies(relations, package)
    THEN format_relations(filter_dependencies(relations, package))
    ELSE relationstr

drop_dependency(relationstr, package) ==
    drop_dependency_of(relationstr, parse_relations(relationstr), package)

\* =========================================================== ensure_relation
\* The entries at which the loop of ensure_relation ends: the entry implies
\* the new relation (the string is returned as it is), or one of the two
\* calls of is_relation_implied raises.
RelationStops(relations, new_relation) ==
    {i \in 1..Len(relations) :
        \/ relation_implied(new_relation, relations[i].relation) /= "False"
        \/ relation_implied(relations[i].relation, new_relation) = Raises}

\* The entries the new relation implies: the first is replaced by it, the
\* others are removed.
Superseded(relations, new_relation) ==
    {i \in 1..Len(relations) :
        relation_implied(relations[i].relation, new_relation) = "True"}

with_relation(relations, new_relation, superseded) ==
    IF superseded = {} THEN add_relation(relations, new_relation)
    ELSE SelectLines(
            [relations EXCEPT ![First(superseded)].relation = new_relation],
            ((1..Len(relations)) \ superseded) \cup {First(superseded)}, 1)

ensure_relation_of(relationstr, relations, new_relation, stops) ==
    IF stops = {}
    THEN Value(format_relations(
            with_relation(relations, new_relation,
                          Superseded(relations, new_relation))))
    ELSE IF relation_implied(new_relation, relations[First(stops)].relation)
            = "True"
    THEN Value(relationstr)
    ELSE Raised(Raises)

ensure_relation_parsed(relationstr, relations, new_relation) ==
    ensure_relation_of(relationstr, relations, new_relation,
                       RelationStops(relations, new_relation))

ensure_relation(relationstr, new_relationstr) ==
    ensure_relation_parsed(relationstr, parse_relations(relationstr),
                           parse_relation(new_relationstr))

\* ============================================================== get_relation
\* _iter_relations: the entries one of whose alternatives names the package
iter_relations(relations, package) ==
    {i \in 1..Len(relations) :
        \E k \in 1..Len(relations[i].relation) :
            relations[i].relation[k].name = package}

\* One turn of the loop of get_relation, at the entry with (1-based) index
\* i; the offset returned is that of enumerate, from 0.
get_relation_at(relations, package, i) ==
    IF Len(relations[i].relation) > 1
    THEN Raised("ValueError")
    ELSE Value([offset |-> i - 1, relation |-> relations[i].relation])

\* names != [package] is false for an entry of one alternative that
\* _iter_relations yields, so the first entry yielded ends the loop.
get_relation_of(relations, package) ==
    IF iter_relations(relations, package) = {}
    THEN Raised("KeyError")
    ELSE get_relation_at(relations, package,
                         First(iter_relations(relations, package)))

get_relation(relationstr, package) ==
    get_relation_of(parse_relations(relationstr), package)

\* ------------------------------- calls of the mutating relation operations
MutAlphabet ==
    {Comma, Pipe, Space, Newline, "bzr", "foo", "(>= 1)", "(= 2)"}

\* The calls: the operation, the relation string, and the version or the
\* new relation where the operation takes one.  The package is bzr.
MutCall(op, s, v, new) ==
    [fn |-> "mutate", op |-> op, done |-> FALSE, s |-> s,
     package |-> <<"bzr">>, v |-> v, new |-> new,
     out |-> [exc |-> "unset", value |-> <<>>]]

MutCalls(s) ==
    {MutCall("ensure_minimum_version", s, "2", <<>>),
     MutCall("ensure_exact_version", s, "2", <<>>),
     MutCall("ensure_some_version", s, "none", <<>>),
     MutCall("ensure_relation", s, "none", <<"bzr">>),
     MutCall("ensure_relation", s, "none", <<"bzr", Space, "(>= 2)">>),
     MutCall("drop_dependency", s, "none", <<>>),
     MutCall("get_relation", s, "none", <<>>)}

InitMutate ==
    /\ NoEditor
    /\ \E s \in TokenStrings(MutAlphabet, MaxTok) : rel \in MutCalls(s)

Calling(op) == rel.fn = "mutate" /\ rel.op = op /\ ~rel.done

EnsureMinimumVersion ==
    /\ Calling("ensure_minimum_version")
    /\ Returned(Value(ensure_minimum_version(rel.s, rel.package, rel.v)))

EnsureExactVersion ==
    /\ Calling("ensure_exact_version")
    /\ Returned(ensure_exact_version(rel.s, rel.package, rel.v))

EnsureSomeVersion ==
    /\ Calling("ensure_some_version")
    /\ Returned(ensure_some_version(rel.s, rel.package))

EnsureRelation ==
    /\ Calling("ensure_relation")
    /\ Returned(ensure_relation(rel.s, rel.new))

DropDependency ==
    /\ Calling("drop_dependency")
    /\ Returned(Value(drop_dependency(rel.s, rel.package)))

GetRelation ==
    /\ Calling("get_relation")
    /\ Returned(get_relation(rel.s, rel.package))

NextMutate ==
    \/ GetRelation
    \/ EnsureMinimumVersion
    \/ EnsureExactVersion
    \/ EnsureSomeVersion
    \/ EnsureRelation
    \/ DropDependency

SpecMutate == InitMutate /\ [][NextMutate]_vars

Mutated(op) == rel.fn = "mutate" /\ rel.op = op /\ rel.done

\* The package occurs in an OR-group of relations together with a different
\* package.
InComplexGroup(relations, package) ==
    \E i \in 1..Len(relations) :
        /\ \E k \in 1..Len(relations[i].relation) :
                relations[i].relation[k].name = package
        /\ \E k \in 1..Len(relations[i].relation) :
                relations[i].relation[k].name
                    \in {<<n>> : n \in PkgNames} \ {package}

\* C21 (counterexample): ensure_minimum_version, ensure_exact_version,
\* ensure_some_version and drop_dependency raise whenever the package occurs
\* in an OR-group together with a different package, at whatever position.
C21_ComplexRuleRefused ==
    (rel.fn = "mutate" /\ rel.done
        /\ rel.op \notin {"ensure_relation", "get_relation"}
        /\ InComplexGroup(parse_relations(rel.s), rel.package))
        => rel.out.exc /= "none"

\* No semantic change is needed, by operation: every entry solely of the
\* package has a version >= v, and there is one; every such entry is
\* '= v', and there is one; there is such an entry; some entry implies the
\* new relation; no entry has the package for all its alternatives.
AllSole(relations, package, v, exact) ==
    \A i \in 1..Len(relations) :
        IsSole(relations[i], package) =>
            /\ relations[i].relation[1].version /= <<>>
            /\ Version(relations[i].relation[1].version[2]) >= Version(v)
            /\ exact =>
                /\ relations[i].relation[1].version[1] = "="
                /\ Version(relations[i].relation[1].version[2]) = Version(v)

SomeImplies(relations, new_relation) ==
    \E i \in 1..Len(relations) :
        relation_implied(new_relation, relations[i].relation) = "True"

NoChangeNeeded(op, relations, package, v, new_relation) ==
    IF op = "ensure_minimum_version"
    THEN found(relations, package) /\ AllSole(relations, package, v, FALSE)
    ELSE IF op = "ensure_exact_version"
    THEN found(relations, package) /\ AllSole(relations, package, v, TRUE)
    ELSE IF op = "ensure_some_version" THEN found(relations, package)
    ELSE IF op = "ensure_relation" THEN SomeImplies(relations, new_relation)
    ELSE \A i \in 1..Len(relations) : keep(relations[i].relation, package)

UnchangedCase(op) ==
    /\ Mutated(op)
    /\ rel.out.exc = "none"
    /\ NoChangeNeeded(op, parse_relations(rel.s), rel.package, rel.v,
                      parse_relation(rel.new))
    /\ format_relations(parse_relations(rel.s)) /= rel.s
    /\ rel.out.value = rel.s

MaxRel == 4
AddEntries ==
    {RelEntry(h, r, t) :
        h \in {<<>>, <<Space>>, <<Newline>>},
        r \in {<<>>, <<PkgRelation(<<"foo">>, <<>>)>>},
        t \in {<<>>, <<Space>>}}

InitAdd ==
    /\ NoEditor
    /\ rel \in {[fn |-> "add_relation", done |-> FALSE, relations |-> rs,
                 relation |-> <<PkgRelation(<<"bzr">>, <<>>)>>, out |-> <<>>] :
                    rs \in TokenStrings(AddEntries, MaxRel)}

AddRelation ==
    /\ rel.fn = "add_relation"
    /\ ~rel.done
    /\ Returned(add_relation(rel.relations, rel.relation))

SpecAdd == InitAdd /\ [][AddRelation]_vars

\* w is the most frequent of the white spaces ws[1], ..., ws[n].
Occurrences(ws, w) == Cardinality({k \in 1..Len(ws) : ws[k] = w})

MostFrequent(ws, w) ==
    \A k \in 1..Len(ws) :
        ws[k] /= w => Occurrences(ws, ws[k]) < Occurrences(ws, w)

\* The new entry was appended to n entries none of which is empty: its head
\* and the tail of the entry before it are the most frequent head and tail,
\* where there is one.
MajorityVote(relations, out, n) ==
    /\ \A h \in Heads(relations, 1, n) :
            MostFrequent([k \in 1..n |-> relations[k].head], h)
                => out[n + 1].head = h
    /\ \A t \in Tails(relations, 1, n) :
            MostFrequent([k \in 1..n |-> relations[k].tail], t)
                => out[n].tail = t

\* C23 (counterexample): a new entry added to two or more entries gets the
\* most frequent leading white space of the existing entries, and the
\* previous last entry the most frequent trailing white space.
C23_MajorityVote ==
    (rel.fn = "add_relation" /\ rel.done /\ Len(rel.relations) >= 2
        /\ \A k \in 1..Len(rel.relations) : rel.relations[k].relation /= <<>>)
        => MajorityVote(rel.relations, rel.out, Len(rel.relations))

\* ------------------------------------------------- generated files, exit
\* C29 (counterexample): with allow_generated false, a file for which
\* check_generated_file raises (a sibling template, or a banner) is, after
\* every exit, the file it was at entry.
C29_GeneratedFileKept ==
    (pc = "closed" /\ ~allow_generated
        /\ check_generated_file(file0, sib_in, sib_m4).raised)
        => file = file0

\* C30 (counterexample): after every __exit__ that did not raise, changed
\* has been assigned, and it is True exactly when the file differs from the
\* file at entry.
C30_ChangedAttribute ==
    (pc = "closed" /\ exc \in {"none", BodyExc(TRUE)})
        => /\ changed /= "unset"
           /\ changed = "True" <=> file /= file0

\* --------------------------------------------------------- get_relation
\* The package is named by an alternative of an entry with more than one
\* alternative.
InGroup(relations, package) ==
    \E i \in iter_relations(relations, package) :
        Len(relations[i].relation) > 1

\* C25 (counterexample): get_relation raises ValueError whenever the package
\* occurs in an entry with more than one alternative, wherever that entry
\* is; otherwise it returns the index and the relation of the first entry
\* solely of the package, and raises KeyError when there is none.
C25_GetRelation ==
    Mutated("get_relation") =>
        IF InGroup(parse_relations(rel.s), rel.package)
        THEN rel.out.exc = "ValueError"
        ELSE IF found(parse_relations(rel.s), rel.package)
        THEN /\ rel.out.exc = "none"
             /\ IsSole(parse_relations(rel.s)[rel.out.value.offset + 1],
                       rel.package)
             /\ \A i \in 1..rel.out.value.offset :
                    ~IsSole(parse_relations(rel.s)[i], rel.package)
             /\ rel.out.value.relation
                    = parse_relations(rel.s)[rel.out.value.offset + 1].relation
        ELSE rel.out.exc = "KeyError"

\* ------------------------------------------------------- drop_dependency
\* The relations of the entries of a list, those without any alternative
\* (the text between two commas, or after the last) left out.
RelationsOf(relations) ==
    LET NotEmpty(r) == r /= <<>>
    IN  SelectSeq([i \in 1..Len(relations) |-> relations[i].relation],
                  NotEmpty)

\* The relations of the entries that do not have the package for all their
\* alternatives, in their order.
Others(relations, package) ==
    LET NotAll(r) == {r[k].name : k \in 1..Len(r)} /= {package}
    IN  SelectSeq(RelationsOf(relations), NotAll)

\* C26: drop_dependency removes exactly the entries all of whose
\* alternatives name the package and keeps the relations of the others in
\* their order; the result has no entry solely of the package, and dropping
\* again returns the result as it is.
C26_DropsExactly ==
    Mutated("drop_dependency") =>
        /\ rel.out.exc = "none"
        /\ RelationsOf(parse_relations(rel.out.value))
                = Others(parse_relations(rel.s), rel.package)
        /\ ~found(parse_relations(rel.out.value), rel.package)
        /\ drop_dependency(rel.out.value, rel.package) = rel.out.value

\* An entry solely of the package was dropped and an entry naming another
\* package was kept.
C26_Witness ==
    /\ Mutated("drop_dependency")
    /\ found(parse_relations(rel.s), rel.package)
    /\ \E i \in 1..Len(parse_relations(rel.out.value)) :
            IsSole(parse_relations(rel.out.value)[i], <<"foo">>)
    /\ Len(parse_relations(rel.out.value)) < Len(parse_relations(rel.s))

\* ---------------------------------------------- calls of filter_dependencies
\* The relation lists filter_dependencies is called with: at most MaxRel
\* entries, each bzr or foo with some leading and trailing white space.  The
\* entries kept are those of drop_dependency for bzr.
FilterEntries ==
    {RelEntry(h, <<PkgRelation(<<n>>, <<>>)>>, t) :
        h \in {<<>>, <<Space>>}, n \in {"bzr", "foo"}, t \in {<<>>, <<Space>>}}

InitFilter ==
    /\ NoEditor
    /\ rel \in {[fn |-> "filter_dependencies", done |-> FALSE,
                 relations |-> rs, package |-> <<"bzr">>, out |-> <<>>] :
                    rs \in TokenStrings(FilterEntries, MaxRel)}

FilterDependencies ==
    /\ rel.fn = "filter_dependencies"
    /\ ~rel.done
    /\ Returned(filter_dependencies(rel.relations, rel.package))

SpecFilter == InitFilter /\ [][FilterDependencies]_vars

\* C27 (counterexample): when filter_dependencies removes entries from the
\* front of the list, one or several, the first entry that is left has the
\* leading white space of the first entry of the list.
C27_LeadingSpaceKept ==
    (rel.fn = "filter_dependencies" /\ rel.done /\ rel.out /= <<>>
        /\ ~keep(rel.relations[1].relation, rel.package))
        => rel.out[1].head = rel.relations[1].head

\* The same, when a single entry is removed from the front.
C27_OneRemoved ==
    (rel.fn = "filter_dependencies" /\ rel.done /\ rel.out /= <<>>
        /\ ~keep(rel.relations[1].relation, rel.package)
        /\ keep(rel.relations[2].relation, rel.package))
        => rel.out[1].head = rel.relations[1].head

\* ------------------------------------------- soundness of is_dep_implied
\* The versions a package may have, in their order: the versions the atoms
\* name, and one below and one above them.
AnyVersion == {0} \cup {Version(v) : v \in VersionStrings} \cup {4}

\* Version x satisfies the constraint (op v); "<" is the deprecated
\* spelling of "<=".
Holds(x, op, v) ==
    IF op = ">=" THEN x >= v
    ELSE IF op = "=" THEN x = v
    ELSE IF op = "<<" THEN x < v
    ELSE IF op \in {"<=", "<"} THEN x <= v
    ELSE x > v

Satisfies(x, a) ==
    a.version = <<>> \/ Holds(x, a.version[1], Version(a.version[2]))

\* C28: for two atoms of the same package, when is_dep_implied(dep, outer)
\* returns True, every version that satisfies the constraint of outer
\* satisfies the constraint of dep.
C28_Sound ==
    (rel.fn = "is_dep_implied" /\ rel.done /\ rel.dep.name = rel.outer.name
        /\ rel.out = "True")
        => \A x \in AnyVersion :
                Satisfies(x, rel.outer) => Satisfies(x, rel.dep)

\* A strict upper bound implied by a lower upper bound that is not strict.
C28_Witness ==
    /\ rel.fn = "is_dep_implied"
    /\ rel.done
    /\ rel.dep.name = rel.outer.name
    /\ rel.dep.version /= <<>>
    /\ rel.outer.version /= <<>>
    /\ rel.dep.version[1] = "<<"
    /\ rel.outer.version[1] = "<="
    /\ Version(rel.outer.version[2]) < Version(rel.dep.version[2])
    /\ rel.out = "True"

\* ============================================================ ControlEditor
\* The control file and its template are deb822 files of one paragraph: the
\* lines EntryA and EntryB are two fields, Banner is a comment.  The
\* deb822_repro parser keeps every token, so that dump_paragraphs writes
\* the lines that were parsed; a field assigned is a line at the end of the
\* paragraph.  Contents are bytes.
ControlLines == {EntryA, EntryB, Banner}

Fields(l) == {l[n] : n \in 1..Len(l)} \cap Entries

\* The files parse_deb822_file accepts: no field twice.
ControlTexts ==
    {l \in Texts(ControlLines, MaxLen) :
        \A m, n \in 1..Len(l) : (l[m] = l[n] /\ l[m] \in Entries) => m = n}

\* What guess_template_type returns: "none" is None.
TemplateTypes ==
    {"none", "directory", "rules", "gnome", "postgresql", "cdbs", "debcargo"}

\* _find_template_path(path)
find_template_path(has_in, has_m4) ==
    IF has_in THEN ".in" ELSE IF has_m4 THEN ".m4" ELSE "none"

\* The template of the control file: its path, the type guessed for it, the
\* file, and the Deb822Editor session _update_control_template has on it.
Template(pth, ty, f) ==
    [path |-> pth, type |-> ty, file |-> f, file0 |-> f, pc |-> "new",
     changed |-> "unset", exc |-> "none"]

NoTemplate == Template("none", "none", NoFile)

\* ControlEditor(path, allow_reformatting): the primary is a Deb822Editor
\* with allow_generated False.
InitControl ==
    /\ file \in {NoFile} \cup {File(l) : l \in ControlTexts}
    /\ file0 = file
    /\ sib_in \in BOOLEAN
    /\ sib_m4 \in BOOLEAN
    /\ other \in IF sib_in \/ sib_m4
                 THEN {Template(find_template_path(sib_in, sib_m4), ty,
                                File(l)) :
                            ty \in TemplateTypes, l \in ControlTexts}
                 ELSE {NoTemplate}
    /\ allow_generated = FALSE
    /\ allow_reformatting \in BOOLEAN
    /\ merge3_version = "new"
    /\ nonexistant = "default"
    /\ pc = "new"
    /\ orig_content = None
    /\ parsed = ParsedNone
    /\ rewritten_content = None
    /\ updated_content = None
    /\ changed = "unset"
    /\ exc = "none"
    /\ template_path = "none"
    /\ body_raised = FALSE
    /\ probe = "unset"
    /\ nmut = 0
    /\ mutated = FALSE
    /\ rel = NoCall

\* _expand_control_template(template_path, path, template_type): the
\* outcomes it can have.  The commands of the types rules, gnome and
\* postgresql are outside the program: they fail, or they write the control
\* file from the template, with or without a banner.
expand_control_template(t, f) ==
    IF t.type \in {"rules", "gnome", "postgresql"}
    THEN {[exc |-> "TemplateExpansionFailed", file |-> f],
          [exc |-> "none", file |-> File(t.file.l)],
          [exc |-> "none", file |-> File(<<Banner>> \o t.file.l)]}
    ELSE IF t.type = "directory"
    THEN {[exc |-> "GeneratedFile", file |-> f]}
    ELSE {[exc |-> "AssertionError", file |-> f]}

\* Deb822Editor.__enter__ on the existing file f.
PrimaryEntered(f) ==
    /\ file' = f
    /\ orig_content' = Bytes(f.l)
    /\ parsed' = Parsed(f.l)
    /\ rewritten_content' = Bytes(f.l)
    /\ pc' = "open"
    /\ exc' = "none"
    /\ template_path' = "none"

EnterFailed(e, tpl) ==
    /\ pc' = "enter_failed"
    /\ exc' = e
    /\ template_path' = tpl
    /\ UNCHANGED <<file, orig_content, parsed, rewritten_content>>

\* ControlEditor.__enter__: a missing control file with a template is
\* expanded from the template first.
ControlEnter ==
    /\ pc = "new"
    /\ IF file.exists THEN PrimaryEntered(file)
       ELSE IF other.path = "none" THEN EnterFailed("FileNotFoundError", "none")
       ELSE IF other.type = "none"
       THEN EnterFailed("GeneratedFile", other.path)
       ELSE \E x \in expand_control_template(other, file) :
                IF x.exc /= "none"
                THEN EnterFailed(x.exc, IF x.exc = "GeneratedFile"
                                        THEN other.path ELSE "none")
                ELSE PrimaryEntered(x.file)
    /\ UNCHANGED <<env, updated_content, changed, body_raised, probe, nmut,
                   mutated>>

\* paragraph[field] = value, for a field the paragraph does not have
SetField ==
    \E e \in Entries \ Fields(parsed.l) : Mutate(Parsed(Append(parsed.l, e)))

\* del paragraph[field]
DelField ==
    \E n \in 1..Len(parsed.l) :
        /\ parsed.l[n] \in Entries
        /\ Mutate(Parsed(SubSeq(parsed.l, 1, n - 1)
                         \o SubSeq(parsed.l, n + 1, Len(parsed.l))))

\* ControlEditor.changes(): (field, old, new) for the fields whose value
\* differs, the fields of the original paragraph first; new says whether
\* the field is there now (old is then None).
Change(e, new) == [field |-> e, new |-> new]

changes(orig, new) ==
    LET gone(e) == e \in Entries /\ e \notin Fields(new)
        came(e) == e \in Entries /\ e \notin Fields(orig)
        old_fields == SelectSeq(orig, gone)
        new_fields == SelectSeq(new, came)
    IN  [k \in 1..Len(old_fields) |-> Change(old_fields[k], FALSE)]
            \o [k \in 1..Len(new_fields) |-> Change(new_fields[k], TRUE)]

\* paragraph.get(key) != old_value
Conflict(l, c) == IF c.new THEN c.field \in Fields(l) ELSE c.field \notin Fields(l)

\* del paragraph[key], or paragraph[key] = new_value
Applied(l, c) ==
    LET other_field(x) == x /= c.field
    IN  IF c.new THEN Append(l, c.field) ELSE SelectSeq(l, other_field)

\* Deb822Editor.apply_changes(changes, resolve_conflict): with fields that
\* are added or removed, the resolver of cdbs raises ChangeConflict as the
\* default one does; the changes before the conflict stay applied.
RECURSIVE apply_changes(_, _)
apply_changes(l, chs) ==
    IF chs = <<>> THEN [l |-> l, exc |-> "none"]
    ELSE IF Conflict(l, Head(chs)) THEN [l |-> l, exc |-> "ChangeConflict"]
    ELSE apply_changes(Applied(l, Head(chs)), Tail(chs))

\* The session of a Deb822Editor on the file f around apply_changes: a is
\* what apply_changes left, x what __exit__ does then.
deb822_exit(f, a, has_in, has_m4, allow_gen, m3) ==
    exit_editor(Bytes(a.l), f, has_in, has_m4, Bytes(f.l), Bytes(f.l),
                allow_gen, FALSE, m3, a.exc /= "none")

\* The exception that leaves the with block: that of __exit__, else that of
\* the body.
LeavesWith(a, x) == IF x.exc \in {"none", "BodyError"} THEN a.exc ELSE x.exc

\* _update_control_template up to the end of the with block on the template
updated_template(t, a, x) ==
    [t EXCEPT !.pc = "closed", !.file = x.file, !.exc = LeavesWith(a, x),
              !.changed = IF x.assigned THEN BoolStr(x.ret) ELSE @]

update_template(t, chs, m3) ==
    IF t.type \in {"none", "directory"}
    THEN [t EXCEPT !.exc = "GeneratedFile"]
    ELSE updated_template(t, apply_changes(t.file.l, chs),
                          deb822_exit(t.file, apply_changes(t.file.l, chs),
                                      FALSE, FALSE, FALSE, m3))

\* Where _update_control_template goes on after the with block: it is left
\* by an exception, it returns False for a template that did not change,
\* or it expands the template.
expands_unchanged(t, expand) ==
    IF t.exc /= "none" THEN "closed"
    ELSE IF expand THEN "expanding" ELSE "closed"

expands(t, expand) ==
    IF t.exc /= "none" THEN "closed"
    ELSE IF t.changed /= "True" THEN "closed"
    ELSE IF expand THEN "expanding" ELSE "closed"

\* ControlEditor.__exit__ from _update_control_template on: t is the
\* template after its with block.
Redirected(t, f, expand, raised) ==
    /\ other' = t
    /\ file' = f
    /\ pc' = expands(t, expand)
    /\ exc' = IF t.exc /= "none" THEN t.exc ELSE BodyExc(raised)
    /\ template_path' = IF t.exc = "GeneratedFile" /\ t.pc = "new"
                        THEN t.path ELSE "none"
    /\ changed' = IF t.exc /= "none" \/ pc' = "expanding" THEN changed
                  ELSE BoolStr(t.changed = "True")

\* The primary's __exit__ returned or raised x, and the exception is not
\* one that ControlEditor.__exit__ handles.
PrimaryExited(x) ==
    /\ file' = x.file
    /\ exc' = x.exc
    /\ template_path' = x.template
    /\ changed' = IF x.assigned THEN BoolStr(x.ret) ELSE changed
    /\ pc' = "closed"
    /\ other' = other

\* ControlEditor.__exit__, to the point where the template is written.  A
\* session on a control file that was missing unlinks the expanded file and
\* updates the template only.
ControlExitOf(x, raised) ==
    IF ~file0.exists
    THEN Redirected(update_template(other, changes(orig_content.l, parsed.l),
                                    merge3_version),
                    NoFile, FALSE, raised)
    ELSE IF x.exc = "GeneratedFile" /\ x.template /= "none"
    THEN Redirected(update_template(other, changes(orig_content.l, parsed.l),
                                    merge3_version),
                    file, TRUE, raised)
    ELSE PrimaryExited(x)

ControlExit ==
    /\ pc = "open"
    /\ \E raised \in BOOLEAN :
        /\ body_raised' = raised
        /\ ControlExitOf(exit_editor(Bytes(parsed.l), file, sib_in, sib_m4,
                                     orig_content, rewritten_content, FALSE,
                                     allow_reformatting, merge3_version,
                                     raised),
                         raised)
    /\ updated_content' = Bytes(parsed.l)
    /\ UNCHANGED <<sib_in, sib_m4, merge3_version, allow_generated,
                   allow_reformatting, nonexistant, file0, rel, orig_content,
                   parsed, rewritten_content, probe, nmut, mutated>>

\* The end of _update_control_template: for cdbs a Deb822Editor on the
\* control file with allow_generated=True applies the changes, for the
\* other types the template is expanded.
expanded(t, f, chs, has_in, has_m4, m3) ==
    IF t.type = "cdbs"
    THEN {[exc |-> LeavesWith(apply_changes(f.l, chs),
                              deb822_exit(f, apply_changes(f.l, chs), has_in,
                                          has_m4, TRUE, m3)),
           file |-> deb822_exit(f, apply_changes(f.l, chs), has_in, has_m4,
                                TRUE, m3).file]}
    ELSE expand_control_template(t, f)

Expand ==
    /\ pc = "expanding"
    /\ \E x \in expanded(other, file, changes(orig_content.l, parsed.l), sib_in, sib_m4, merge3_version) :
        /\ file' = x.file
        /\ exc' = IF x.exc /= "none" THEN x.exc ELSE exc
        /\ changed' = IF x.exc /= "none" THEN changed ELSE "True"
    /\ pc' = "closed"
    /\ UNCHANGED <<env, orig_content, parsed, rewritten_content,
                   updated_content, template_path, body_raised, probe, nmut,
                   mutated>>

NextControl == ControlEnter \/ SetField \/ DelField \/ ControlExit \/ Expand

SpecControl == InitControl /\ [][NextControl]_vars

\* The session changed the control file: what it would write is neither
\* what it read nor what it read, formatted.
SessionChanged ==
    ~no_change(orig_content, rewritten_content, Bytes(parsed.l))

\* A step that writes or regenerates the control file while __exit__ runs.
ControlWritten == pc /= "new" /\ file'.exists /\ file' /= file

TemplateUpdated ==
    other.exc = "none" /\ other.changed = "True" /\ other.file /= other.file0

\* The control file is generated and has no template that is edited for it:
\* it has a banner and no template, or a template whose type is None or
\* "directory".
NotRedirectable ==
    IF other.path = "none" THEN HasBanner(file0)
    ELSE other.type \in {"none", "directory"}

\* C24: the control file of a session that has a template is written or
\* regenerated by __exit__ only when the template has been updated, and
\* changed; and a session that changed a control file that has a banner
\* only, or a template whose type is None or "directory", ends with
\* GeneratedFile and both files as they were.
C24_TemplateFirst ==
    /\ [][(other.path /= "none" /\ ControlWritten) => TemplateUpdated]_vars
    /\ [](pc = "closed" /\ file0.exists /\ SessionChanged /\ NotRedirectable
            => exc = "GeneratedFile" /\ file = file0
                /\ other.file = other.file0)

\* The changes went to the template, and the control file was written or
\* regenerated after it.
C24_Witness ==
    /\ pc = "closed"
    /\ file0.exists
    /\ exc = "none"
    /\ changed = "True"
    /\ other.file /= other.file0
    /\ file /= file0

\* GeneratedFile came out of a session that changed a control file with a
\* template of no known type.
C24_WitnessRefused ==
    /\ pc = "closed"
    /\ file0.exists
    /\ SessionChanged
    /\ other.path /= "none"
    /\ other.type = "none"
    /\ exc = "GeneratedFile"

=============================================================================
